---- MODULE Spec2Model ----
(***************************************************************************)
(* Settlement-signing pipeline of the Extended Exchange Rust SDK           *)
(* (src/src/signing/stark.rs, src/src/models/order.rs).                    *)
(*                                                                         *)
(* Number representation.  The pipeline works on 64-bit integers and on    *)
(* rust_decimal::Decimal (96-bit magnitude, scale 0..28, sign).  Both are  *)
(* wider than the integers of the model checker, so every program integer  *)
(* is kept at its real width as a magnitude written in little-endian       *)
(* decimal digits (<<>> is zero, no leading zero digit) plus a sign:       *)
(*   i64 / u64 value : [neg |-> BOOLEAN, mag |-> digits]                   *)
(*   Decimal         : [neg |-> BOOLEAN, mag |-> digits, scale |-> 0..28]  *)
(* Strings are sequences of one-character strings.                         *)
(***************************************************************************)
EXTENDS Integers, Sequences, FiniteSets, TLC

None == [kind |-> "none"]
Some(v) == [kind |-> "some", val |-> v]

(***************************************************************************)
(* Unsigned magnitudes                                                     *)
(***************************************************************************)
RECURSIVE Carry(_, _)
Carry(xs, c) ==
    IF xs = <<>>
    THEN IF c = 0 THEN <<>> ELSE <<c % 10>> \o Carry(<<>>, c \div 10)
    ELSE LET v == Head(xs) + c IN <<v % 10>> \o Carry(Tail(xs), v \div 10)

RECURSIVE Trim(_)
Trim(xs) ==
    IF xs = <<>> THEN <<>>
    ELSE IF xs[Len(xs)] = 0 THEN Trim(SubSeq(xs, 1, Len(xs) - 1)) ELSE xs

MagOf(n) == Trim(Carry(<<n>>, 0))

Digit(xs, i) == IF i >= 1 /\ i <= Len(xs) THEN xs[i] ELSE 0

MaxOf(a, b) == IF a >= b THEN a ELSE b

MagAdd(a, b) ==
    Carry([i \in 1..MaxOf(Len(a), Len(b)) |-> Digit(a, i) + Digit(b, i)], 0)

\* a - b for a >= b
MagSub(a, b) ==
    Trim(Carry([i \in 1..Len(a) |-> Digit(a, i) - Digit(b, i)], 0))

RECURSIVE MagCmpFrom(_, _, _)
MagCmpFrom(a, b, i) ==
    IF i = 0 THEN 0
    ELSE IF a[i] > b[i] THEN 1
    ELSE IF a[i] < b[i] THEN -1
    ELSE MagCmpFrom(a, b, i - 1)

\* -1, 0, 1 as a < b, a = b, a > b
MagCmp(a, b) ==
    IF Len(a) > Len(b) THEN 1
    ELSE IF Len(a) < Len(b) THEN -1
    ELSE MagCmpFrom(a, b, Len(a))

MagLt(a, b) == MagCmp(a, b) < 0
MagLe(a, b) == MagCmp(a, b) <= 0

RECURSIVE ColumnSum(_, _, _, _)
ColumnSum(a, b, k, i) ==
    IF i > Len(a) THEN 0
    ELSE Digit(a, i) * Digit(b, k - i + 1) + ColumnSum(a, b, k, i + 1)

MagMul(a, b) ==
    IF a = <<>> \/ b = <<>> THEN <<>>
    ELSE Trim(Carry([k \in 1..(Len(a) + Len(b) - 1) |-> ColumnSum(a, b, k, 1)], 0))

\* a * 10^k
MagShl(a, k) == IF a = <<>> THEN <<>> ELSE [i \in 1..k |-> 0] \o a

\* floor(a / 10^k)
MagShr(a, k) == IF k >= Len(a) THEN <<>> ELSE SubSeq(a, k + 1, Len(a))

\* a mod 10^k is zero
MagLowZero(a, k) == \A i \in 1..k : Digit(a, i) = 0

RECURSIVE Reduce(_, _, _)
\* r - b taken d' times until the rest is below b: the next quotient digit
\* and the rest
Reduce(r, b, d) ==
    IF MagLt(r, b) THEN [d |-> d, r |-> r] ELSE Reduce(MagSub(r, b), b, d + 1)

QuotientDigit(red) == [q |-> <<red.d>>, r |-> red.r]

JoinQuotients(low, high_q) == [q |-> low.q \o high_q, r |-> low.r]

RECURSIVE MagDivRange(_, _, _, _, _)
RECURSIVE DivLowerHalf(_, _, _, _, _)
\* long division of the digits lo..hi of a by b > 0, r < b being what is
\* left of the digits above hi: the hi - lo + 1 quotient digits and the
\* remainder.  The range is divided by halves, the upper half first.
MagDivRange(a, b, lo, hi, r) ==
    IF lo = hi THEN QuotientDigit(Reduce(Trim(<<a[lo]>> \o r), b, 0))
    ELSE DivLowerHalf(a, b, lo, (lo + hi) \div 2, MagDivRange(a, b, ((lo + hi) \div 2) + 1, hi, r))

\* (the test makes the upper half the first to be evaluated)
DivLowerHalf(a, b, lo, mid, high) ==
    IF high.q = <<>> THEN high
    ELSE JoinQuotients(MagDivRange(a, b, lo, mid, high.r), high.q)

TrimQuotient(dm) == [q |-> Trim(dm.q), r |-> dm.r]

\* a div b and a mod b for b > 0
MagDivMod(a, b) ==
    IF a = <<>> THEN [q |-> <<>>, r |-> <<>>]
    ELSE TrimQuotient(MagDivRange(a, b, 1, Len(a), <<>>))

(***************************************************************************)
(* Machine ranges                                                          *)
(***************************************************************************)
\* a magnitude from its decimal digits written most significant first
Reverse(xs) == [i \in 1..Len(xs) |-> xs[Len(xs) + 1 - i]]

One == <<1>>
\* 4294967296
Two32 == Reverse(<<4, 2, 9, 4, 9, 6, 7, 2, 9, 6>>)
\* 9223372036854775808
Two63 == Reverse(<<9, 2, 2, 3, 3, 7, 2, 0, 3, 6, 8, 5, 4, 7, 7, 5, 8, 0, 8>>)
\* 18446744073709551616
Two64 == Reverse(<<1, 8, 4, 4, 6, 7, 4, 4, 0, 7, 3, 7, 0, 9, 5, 5, 1, 6, 1, 6>>)
\* 79228162514264337593543950336
Two96 == Reverse(
    <<7, 9, 2, 2, 8, 1, 6, 2, 5, 1, 4, 2, 6, 4, 3, 3, 7, 5, 9, 3, 5, 4, 3, 9, 5, 0, 3, 3, 6>>)
I64_MAX == MagSub(Two63, One)
U64_MAX == MagSub(Two64, One)
U32_MAX == MagSub(Two32, One)

(***************************************************************************)
(* 64-bit integers.  Overflow of +, - on a primitive integer panics in a   *)
(* build with overflow checks (debug profile) and wraps modulo 2^64 in a   *)
(* build without them (release profile).                                   *)
(***************************************************************************)
Profiles == {"debug", "release"}

MkInt(neg, mag) == [neg |-> neg /\ mag # <<>>, mag |-> mag]

IntOf(n) == IF n < 0 THEN MkInt(TRUE, MagOf(0 - n)) ELSE MkInt(FALSE, MagOf(n))

IntIsZero(x) == x.mag = <<>>
IntIsPos(x) == ~x.neg /\ x.mag # <<>>
IntIsNeg(x) == x.neg

\* x <= y on signed values
IntLe(x, y) ==
    IF x.neg /\ ~y.neg THEN TRUE
    ELSE IF ~x.neg /\ y.neg THEN FALSE
    ELSE IF x.neg THEN MagLe(y.mag, x.mag)
    ELSE MagLe(x.mag, y.mag)

IntLt(x, y) == IntLe(x, y) /\ x # y

\* x + y on signed values, unbounded
IntAdd(x, y) ==
    IF x.neg = y.neg THEN MkInt(x.neg, MagAdd(x.mag, y.mag))
    ELSE IF MagLe(y.mag, x.mag) THEN MkInt(x.neg, MagSub(x.mag, y.mag))
    ELSE MkInt(y.neg, MagSub(y.mag, x.mag))

I64_MIN_VALUE == MkInt(TRUE, Two63)

InI64(x) == IF x.neg THEN MagLe(x.mag, Two63) ELSE MagLe(x.mag, I64_MAX)
InU64(x) == ~x.neg /\ MagLe(x.mag, U64_MAX)

Panic(msg) == [kind |-> "panic", msg |-> msg]
Err(msg) == [kind |-> "err", msg |-> msg]
Val(v) == [kind |-> "ok", val |-> v]

\* `-x` on an i64
NegI64(x, profile) ==
    IF x = I64_MIN_VALUE
    THEN IF profile = "debug" THEN Panic("attempt to negate with overflow")
         ELSE Val(I64_MIN_VALUE)
    ELSE Val(MkInt(~x.neg, x.mag))

\* `x as u64` on an i64: two's complement reinterpretation
AsU64(x) == IF x.neg THEN MagSub(Two64, x.mag) ELSE x.mag

\* `x as i64` on a u64: two's complement reinterpretation
AsI64(mag) == IF MagLe(mag, I64_MAX) THEN MkInt(FALSE, mag) ELSE MkInt(TRUE, MagSub(Two64, mag))

\* a sum that may exceed u64::MAX, reduced as the build reduces it
WrapU64(sum, profile) ==
    IF MagLe(sum, U64_MAX) THEN Val(sum)
    ELSE IF profile = "debug" THEN Panic("attempt to add with overflow")
    ELSE Val(MagSub(sum, Two64))

\* `a + b` on u64; a is the outcome of the step before, a panic there is
\* the outcome of the sum
AddU64(a, b, profile) ==
    IF a.kind # "ok" THEN a ELSE WrapU64(MagAdd(a.val, b), profile)

\* `a / 10^k` on u64, a the outcome of the step before
DivPow10U64(a, k) ==
    IF a.kind # "ok" THEN a ELSE Val(MagShr(a.val, k))

(***************************************************************************)
(* rust_decimal::Decimal                                                   *)
(***************************************************************************)
MAX_SCALE == 28

Dec(neg, mag, scale) == [neg |-> neg, mag |-> mag, scale |-> scale]

DecZero == Dec(FALSE, <<>>, 0)

\* Decimal::from(i64) / Decimal::from(u32) / Decimal::from(u64)
DecFromInt(x) == Dec(x.neg, x.mag, 0)

\* round-half-even of mag / 10^k
RoundsUp(d, lowZero, odd) == d > 5 \/ (d = 5 /\ ~lowZero) \/ (d = 5 /\ lowZero /\ odd)

RoundedQuotient(q, up) == IF up THEN MagAdd(q, One) ELSE q

MagRoundShr(mag, k) ==
    IF k = 0 THEN mag
    ELSE RoundedQuotient(MagShr(mag, k),
                         RoundsUp(Digit(mag, k), MagLowZero(mag, k - 1),
                                  Digit(mag, k + 1) % 2 = 1))

RECURSIVE DecFit(_, _, _)
\* the least number k >= from of dropped digits with which the product fits
\* in 96 bits, or -1 when even scale 0 does not fit
DecFit(mag, scale, from) ==
    IF from > scale THEN -1
    ELSE IF MagLt(MagRoundShr(mag, from), Two96) THEN from
    ELSE DecFit(mag, scale, from + 1)

\* a * b: exact when the product fits in 96 bits with scale <= 28, rounded
\* to the largest scale that fits otherwise; the operator panics when the
\* integral part itself does not fit
DecRescale(neg, p, s, k) ==
    IF k < 0 THEN Panic("Multiplication overflowed")
    ELSE Val(Dec(neg, MagRoundShr(p, k), s - k))

DecProduct(neg, p, s) == DecRescale(neg, p, s, DecFit(p, s, MaxOf(0, s - MAX_SCALE)))

DecMul(a, b) ==
    IF a.mag = <<>> \/ b.mag = <<>> THEN Val(DecZero)
    ELSE DecProduct(a.neg # b.neg, MagMul(a.mag, b.mag), a.scale + b.scale)

\* `a * b` where a and b are outcomes of earlier steps: a panic in either
\* is the outcome of the product
Mul(a, b) ==
    IF a.kind # "ok" THEN a
    ELSE IF b.kind # "ok" THEN b
    ELSE DecMul(a.val, b.val)

\* a / b: the quotient rounded half-even to the largest scale <= 28 at which
\* it fits in 96 bits; the operator panics on a zero divisor and when the
\* integral part of the quotient does not fit.  The quotient is taken to
\* DivPlaces places, which is one place more than the result can keep, and
\* a last digit records whether anything is left beyond them.
DIV_PLACES == 29

MinOf(a, b) == IF a <= b THEN a ELSE b

\* 29 places, fewer when the integral part of the quotient is long: at least
\* 31 significant digits in all
DivPlaces(a, b) ==
    MaxOf(0, MinOf(DIV_PLACES,
                   DIV_PLACES + 2 - ((Len(a.mag) - a.scale) - (Len(b.mag) - b.scale))))

ScaleUp(mag, k) == IF k > 0 THEN MagShl(mag, k) ELSE mag

Sticky(dm) == Trim(<<IF dm.r = <<>> THEN 0 ELSE 1>> \o dm.q)

DecQuotient(neg, q, places, k) ==
    IF k < 0 THEN Panic("Division overflowed")
    ELSE Val(Dec(neg, MagRoundShr(q, k), places + 1 - k))

DecQuotientFit(neg, q, places) ==
    DecQuotient(neg, q, places, DecFit(q, places + 1, MaxOf(1, places + 1 - MAX_SCALE)))

DecDivTo(a, b, places) ==
    DecQuotientFit(a.neg # b.neg,
                   Sticky(MagDivMod(ScaleUp(a.mag, places + b.scale - a.scale),
                                    ScaleUp(b.mag, a.scale - b.scale - places))),
                   places)

DecDiv(a, b) ==
    IF b.mag = <<>> THEN Panic("Division by zero")
    ELSE IF a.mag = <<>> THEN Val(DecZero)
    ELSE DecDivTo(a, b, DivPlaces(a, b))

DecAbs(a) == Dec(FALSE, a.mag, a.scale)

DecTrunc(a) == Dec(a.neg, MagShr(a.mag, a.scale), 0)

DecHasFraction(a) == ~MagLowZero(a.mag, a.scale)

DecCeil(a) ==
    IF DecHasFraction(a) /\ ~a.neg
    THEN Dec(FALSE, MagAdd(MagShr(a.mag, a.scale), One), 0)
    ELSE DecTrunc(a)

DecFloor(a) ==
    IF DecHasFraction(a) /\ a.neg
    THEN Dec(TRUE, MagAdd(MagShr(a.mag, a.scale), One), 0)
    ELSE DecTrunc(a)

\* `.floor()` and `.ceil()` on the outcome of a division
Floor(q) == IF q.kind # "ok" THEN q ELSE Val(DecFloor(q.val))

Ceil(q) == IF q.kind # "ok" THEN q ELSE Val(DecCeil(q.val))

\* Decimal::to_i64: the integral part when it is in the i64 range
IfInI64(t) == IF InI64(t) THEN Some(t) ELSE None

DecToI64(a) == IfInI64(MkInt(a.neg, DecTrunc(a).mag))

\* Decimal::to_u64: None for a negative value, else the integral part when
\* it is in the u64 range
IfInU64(t) == IF InU64(t) THEN Some(t) ELSE None

DecToU64(a) == IF a.neg THEN None ELSE IfInU64(MkInt(FALSE, DecTrunc(a).mag))

(***************************************************************************)
(* String formatting                                                       *)
(***************************************************************************)
DigitChars == <<"0", "1", "2", "3", "4", "5", "6", "7", "8", "9">>

\* u64::to_string / u32::to_string / BigUint::to_string
MagToString(mag) ==
    IF mag = <<>> THEN <<"0">>
    ELSE [i \in 1..Len(mag) |-> DigitChars[mag[Len(mag) + 1 - i] + 1]]

\* i64::to_string
IntToString(x) == IF x.neg THEN <<"-">> \o MagToString(x.mag) ELSE MagToString(x.mag)

HexChars == <<"0", "1", "2", "3", "4", "5", "6", "7", "8", "9",
              "a", "b", "c", "d", "e", "f">>

RECURSIVE HexDigits(_)
HexDigits(n) == IF n < 16 THEN <<HexChars[n + 1]>>
                ELSE HexDigits(n \div 16) \o <<HexChars[(n % 16) + 1]>>

\* format!("{:#x}", felt)
FeltToHex(n) == <<"0", "x">> \o HexDigits(n)

(***************************************************************************)
(* External cryptographic primitives (starknet_crypto, rust-crypto-lib-    *)
(* base).  Field elements are naturals below FELT_PRIME; the curve and the *)
(* hash are stood in for by arithmetic mixing functions, which keep what   *)
(* the pipeline relies on: each is a function of exactly its arguments.    *)
(***************************************************************************)
FELT_PRIME == 65521

Alphabet == HexChars \o <<"x", "-", "_", "P", "S", "N", "M", "A", "I", "E", "O", "L",
                          "r", "p", "t", "u", "l", "s", "v", "i", "n", "g", "G", "Z">>

CharCode(c) == CHOOSE i \in 1..Len(Alphabet) : Alphabet[i] = c

RECURSIVE StringSum(_, _)
StringSum(str, i) ==
    IF i > Len(str) THEN 1
    ELSE (CharCode(str[i]) + 1) * (3 * i + 1) + StringSum(str, i + 1)

RECURSIVE FieldsSum(_, _)
FieldsSum(fields, j) ==
    IF j > Len(fields) THEN 0
    ELSE (((StringSum(fields[j], 1) % FELT_PRIME) * (31 * j + 7)) % FELT_PRIME)
         + FieldsSum(fields, j + 1)

\* a position-sensitive mix of the characters of every field
MixFields(seed, fields) == (seed + FieldsSum(fields, 1)) % FELT_PRIME

IsHexString(str) ==
    /\ Len(str) >= 3
    /\ str[1] = "0" /\ str[2] = "x"
    /\ \A i \in 3..Len(str) : \E j \in 1..16 : HexChars[j] = str[i]

\* starknet_crypto::get_public_key
get_public_key(private_key) == (private_key * 1009 + 17) % FELT_PRIME

\* rust_crypto_lib_base::get_order_hash: fails on an asset id that is not a
\* hex felt, otherwise a hash of the fourteen fields in the order given
get_order_hash(fields) ==
    IF ~IsHexString(fields[2]) \/ ~IsHexString(fields[4]) \/ ~IsHexString(fields[6])
    THEN Err("invalid hex")
    ELSE Val(MixFields(7, fields))

\* rust_crypto_lib_base::sign_message: ECDSA with a deterministic nonce;
\* fails for the zero scalar
sign_message(message_hash, private_key) ==
    IF private_key = 0 THEN Err("invalid secret scalar")
    ELSE Val([r |-> (message_hash * 7 + private_key * 13 + 1) % FELT_PRIME,
              s |-> (message_hash * private_key + 5) % FELT_PRIME])

(***************************************************************************)
(* StarkSigner                                                             *)
(***************************************************************************)
\* StarkSigner::new
StarkSigner_new(private_key) ==
    [private_key |-> private_key, public_key |-> get_public_key(private_key)]

\* StarkSigner::with_public_key
StarkSigner_with_public_key(private_key, public_key) ==
    [private_key |-> private_key, public_key |-> public_key]

\* Felt::from_hex: an optional "0x", then hexadecimal digits read most
\* significant first; any other character, or a value that is no field
\* element, is an error
IsHexDigit(c) == \E j \in 1..16 : HexChars[j] = c

HexDigitValue(c) == (CHOOSE j \in 1..16 : HexChars[j] = c) - 1

StripHexPrefix(str) ==
    IF Len(str) >= 2 /\ str[1] = "0" /\ str[2] = "x" THEN SubSeq(str, 3, Len(str)) ELSE str

RECURSIVE HexValue(_, _)
HexValue(digits, acc) ==
    IF digits = <<>> THEN Val(acc)
    ELSE IF ~IsHexDigit(Head(digits)) THEN Err("InvalidCharacter")
    ELSE IF acc * 16 + HexDigitValue(Head(digits)) >= FELT_PRIME THEN Err("OutOfRange")
    ELSE HexValue(Tail(digits), acc * 16 + HexDigitValue(Head(digits)))

Felt_from_hex(hex_string) == HexValue(StripHexPrefix(hex_string), 0)

\* StarkSigner::from_hex
from_hex_new(felt) ==
    IF felt.kind # "ok" THEN Err("Invalid hex key") ELSE Val(StarkSigner_new(felt.val))

StarkSigner_from_hex(hex_key) == from_hex_new(Felt_from_hex(hex_key))

\* StarkSigner::from_hex_with_public_key
from_hex_keys(private_key, public_key) ==
    IF private_key.kind # "ok" THEN Err("Invalid private key hex")
    ELSE IF public_key.kind # "ok" THEN Err("Invalid public key hex")
    ELSE Val(StarkSigner_with_public_key(private_key.val, public_key.val))

StarkSigner_from_hex_with_public_key(private_hex, public_hex) ==
    from_hex_keys(Felt_from_hex(private_hex), Felt_from_hex(public_hex))

\* StarkAccount::new
StarkAccount_new(api_key, public_key, private_key, vault_id) ==
    [api_key |-> api_key, public_key |-> public_key,
     private_key |-> private_key, vault_id |-> vault_id]

\* the Ok(Self { .. }) of TradingClient::new
client_of(account, built_signer) ==
    IF built_signer.kind # "ok" THEN built_signer
    ELSE Val([signer |-> built_signer.val, account |-> account])

\* variant: the signer built from both keys of the account
TradingClient_new_with_account_key(account, http_client) ==
    IF http_client.kind # "ok" THEN http_client
    ELSE client_of(account,
                   StarkSigner_from_hex_with_public_key(account.private_key, account.public_key))

\* TradingClient::new: the two HTTP clients are built first (HttpClient::new
\* fails when the underlying client cannot be built), then the signer
TradingClient_new(account, http_client) ==
    IF http_client.kind # "ok" THEN http_client
    ELSE client_of(account, StarkSigner_from_hex(account.private_key))

\* StarkSigner::verify_public_key
verify_public_key(self) ==
    LET derived == get_public_key(self.private_key) IN derived = self.public_key

\* variant: the key derived from the private key instead of the stored one
public_key_hex_derived(self) == FeltToHex(get_public_key(self.private_key))

\* StarkSigner::public_key_hex
public_key_hex(self) == FeltToHex(self.public_key)

\* StarkSigner::sign
map_sign_error(signature) ==
    IF signature.kind = "err" THEN Err("Failed to sign")
    ELSE Val([r |-> signature.val.r, s |-> signature.val.s])

StarkSigner_sign(self, message_hash) ==
    map_sign_error(sign_message(message_hash, self.private_key))

(***************************************************************************)
(* Amount canonicalization and expiration                                  *)
(***************************************************************************)
COLLATERAL_RESOLUTION == 1000000

\* `value.ok_or_else(|| ExtendedError::Signing(what))`
ok_or_else(value, what) == IF value = None THEN Err(what) ELSE Val(value.val)

\* variant: the scaled amount rounded to nearest before `.to_i64()`
amount_to_i64_rounded(scaled, what) ==
    IF scaled.kind # "ok" THEN scaled
    ELSE ok_or_else(DecToI64(Dec(scaled.val.neg,
                                 MagRoundShr(scaled.val.mag, scaled.val.scale), 0)), what)

\* the `.to_i64().ok_or_else(..)?` conversion of a scaled amount; scaled is
\* the outcome of the multiplications before it
amount_to_i64(scaled, what) ==
    IF scaled.kind # "ok" THEN scaled
    ELSE ok_or_else(DecToI64(scaled.val), what)

\* variant: the fee converted without `.ceil()`
fee_to_u64_without_ceil(scaled) ==
    IF scaled.kind # "ok" THEN scaled
    ELSE ok_or_else(DecToU64(DecAbs(scaled.val)), "Fee amount overflow")

\* the `.abs().ceil().to_u64().ok_or_else(..)?` conversion of the scaled fee
fee_to_u64(scaled) ==
    IF scaled.kind # "ok" THEN scaled
    ELSE ok_or_else(DecToU64(DecCeil(DecAbs(scaled.val))), "Fee amount overflow")

\* the returned triple, negated being the outcome of the one negation made
signed_amounts(side, synthetic_amount_stark, collateral_amount_stark, fee_amount_stark, negated) ==
    IF negated.kind # "ok" THEN negated
    ELSE IF side = "Buy"
    THEN Val([synthetic |-> synthetic_amount_stark,
              collateral |-> negated.val,
              fee |-> fee_amount_stark])
    ELSE Val([synthetic |-> negated.val,
              collateral |-> collateral_amount_stark,
              fee |-> fee_amount_stark])

\* variant: the arms of the match exchanged
adjust_signs_exchanged(side, synthetic_amount_stark, collateral_amount_stark, fee_amount_stark, profile) ==
    signed_amounts(IF side = "Buy" THEN "Sell" ELSE "Buy", synthetic_amount_stark,
                   collateral_amount_stark, fee_amount_stark,
                   NegI64(IF side = "Buy" THEN synthetic_amount_stark
                          ELSE collateral_amount_stark, profile))

\* the sign adjustment `match order.side { .. }`
adjust_signs(side, synthetic_amount_stark, collateral_amount_stark, fee_amount_stark, profile) ==
    signed_amounts(side, synthetic_amount_stark, collateral_amount_stark, fee_amount_stark,
                   NegI64(IF side = "Buy" THEN collateral_amount_stark
                          ELSE synthetic_amount_stark, profile))

\* the three conversions in program order: the first that failed is what the
\* function returns, else the sign adjustment follows
finish_amounts(side, synthetic_amount_stark, collateral_amount_stark, fee_amount_stark, profile) ==
    IF synthetic_amount_stark.kind # "ok" THEN synthetic_amount_stark
    ELSE IF collateral_amount_stark.kind # "ok" THEN collateral_amount_stark
    ELSE IF fee_amount_stark.kind # "ok" THEN fee_amount_stark
    ELSE adjust_signs(side, synthetic_amount_stark.val, collateral_amount_stark.val,
                      fee_amount_stark.val, profile)

\* calculate_stark_amounts
calculate_stark_amounts(order, params, profile) ==
    LET synthetic_amount_human == order.quantity
        synthetic_amount_stark ==
            amount_to_i64(DecMul(synthetic_amount_human, DecFromInt(params.synthetic_resolution)),
                          "Synthetic amount overflow")
        collateral_amount_human == DecMul(order.price, order.quantity)
        collateral_amount_stark ==
            amount_to_i64(Mul(collateral_amount_human, Val(DecFromInt(IntOf(COLLATERAL_RESOLUTION)))),
                          "Collateral amount overflow")
        fee_amount_human == Mul(Val(order.fee), collateral_amount_human)
        fee_amount_stark ==
            fee_to_u64(Mul(fee_amount_human, Val(DecFromInt(IntOf(COLLATERAL_RESOLUTION)))))
    IN  finish_amounts(order.side, synthetic_amount_stark, collateral_amount_stark,
                       fee_amount_stark, profile)

\* variant: the 14-day buffer left out
calculate_settlement_expiration_without_buffer(expiry_epoch_millis, profile) ==
    DivPow10U64(AddU64(Val(AsU64(expiry_epoch_millis)), MagOf(999), profile), 3)

\* calculate_settlement_expiration; the quotient by 1000 drops three
\* decimal digits
calculate_settlement_expiration(expiry_epoch_millis, profile) ==
    LET expiry_millis == AsU64(expiry_epoch_millis)
        buffer_millis == MagOf(14 * 24 * 60 * 60 * 1000)
        total_millis == AddU64(Val(expiry_millis), buffer_millis, profile)
    IN  DivPow10U64(AddU64(total_millis, MagOf(999), profile), 3)

(***************************************************************************)
(* Parsing and byte conversions                                            *)
(***************************************************************************)
IsDigitChar(c) == \E j \in 1..10 : DigitChars[j] = c

DigitValue(c) == (CHOOSE j \in 1..10 : DigitChars[j] = c) - 1

\* str::parse::<u32>: an optional "+" and at least one decimal digit, the
\* value at most u32::MAX
ParseU32(str) ==
    LET body == IF str # <<>> /\ Head(str) = "+" THEN Tail(str) ELSE str
        mag == Trim([i \in 1..Len(body) |-> DigitValue(body[Len(body) + 1 - i])])
    IN  IF body = <<>> \/ \E i \in 1..Len(body) : ~IsDigitChar(body[i]) THEN None
        ELSE IF MagLe(mag, U32_MAX) THEN Some(mag) ELSE None

RECURSIVE BytesLE(_, _)
BytesLE(n, count) ==
    IF count = 0 THEN <<>> ELSE <<n % 256>> \o BytesLE(n \div 256, count - 1)

\* variant: the bytes least significant first
FeltToBytesLE(n) == BytesLE(n, 32)

\* Felt::to_bytes_be
FeltToBytesBE(n) == Reverse(BytesLE(n, 32))

RECURSIVE MagPow256(_)
MagPow256(k) ==
    IF k = 0 THEN One
    ELSE IF k = 1 THEN MagOf(256)
    ELSE MagMul(MagPow256(k \div 2), MagPow256(k - (k \div 2)))

RECURSIVE BigUintFromBytesBE(_)
\* num_bigint::BigUint::from_bytes_be: the sum of bytes[i] * 256^(n - i),
\* evaluated by halves
BigUintFromBytesBE(bytes) ==
    LET n == Len(bytes)
        h == n \div 2
    IN  IF n = 0 THEN <<>>
        ELSE IF n = 1 THEN MagOf(bytes[1])
        ELSE MagAdd(MagMul(BigUintFromBytesBE(SubSeq(bytes, 1, h)), MagPow256(n - h)),
                    BigUintFromBytesBE(SubSeq(bytes, h + 1, n)))

\* rust_crypto_lib_base::get_withdrawal_hash: fails on a recipient or asset
\* id that is not a hex felt
get_withdrawal_hash(fields) ==
    IF ~IsHexString(fields[1]) \/ ~IsHexString(fields[3])
    THEN Err("invalid hex")
    ELSE Val(MixFields(11, fields))

\* rust_crypto_lib_base::get_transfer_hash: fails on a position id that is
\* not a decimal u32 or an asset id that is not a hex felt
get_transfer_hash(fields) ==
    IF ParseU32(fields[1]) = None \/ ParseU32(fields[2]) = None \/ ~IsHexString(fields[3])
    THEN Err("invalid field")
    ELSE Val(MixFields(13, fields))

(***************************************************************************)
(* Order signing                                                           *)
(***************************************************************************)
\* What a call did before it returned: the canonical amounts, the argument
\* list handed to the hash function, the hash and the signature, each None
\* when the call ended before producing it.
Trace(amounts, preimage, hash, signature) ==
    [amounts |-> amounts, preimage |-> preimage, hash |-> hash, signature |-> signature]

NoTrace == Trace(None, None, None, None)

\* kind: "ok" (Ok(value)), "err" (Err(msg)) or "panic" (the thread unwinds)
Outcome(kind, msg, value, trace) ==
    [kind |-> kind, msg |-> msg, value |-> value, trace |-> trace]

\* `?` on a failed step: the failure is what the caller gets
Failed(step, trace) == Outcome(step.kind, step.msg, None, trace)

\* variant: the two amounts in each other's place
order_hash_fields_exchanged(params, synthetic_amount, collateral_amount, fee_amount, expiration, nonce, signer) ==
    << MagToString(params.vault_id),
       params.synthetic_asset_id,
       IntToString(collateral_amount),
       params.collateral_asset_id,
       IntToString(synthetic_amount),
       params.collateral_asset_id,
       MagToString(fee_amount),
       MagToString(expiration),
       MagToString(nonce),
       public_key_hex(signer),
       params.domain.name,
       params.domain.version,
       params.domain.chain_id,
       params.domain.revision >>

\* variant: the expiration left out of the argument list
order_hash_fields_without_expiration(params, synthetic_amount, collateral_amount, fee_amount, expiration, nonce, signer) ==
    << MagToString(params.vault_id),
       params.synthetic_asset_id,
       IntToString(synthetic_amount),
       params.collateral_asset_id,
       IntToString(collateral_amount),
       params.collateral_asset_id,
       MagToString(fee_amount),
       <<"0">>,
       MagToString(nonce),
       public_key_hex(signer),
       params.domain.name,
       params.domain.version,
       params.domain.chain_id,
       params.domain.revision >>

\* the argument list of the get_order_hash call
order_hash_fields(params, synthetic_amount, collateral_amount, fee_amount, expiration, nonce, signer) ==
    << MagToString(params.vault_id),
       params.synthetic_asset_id,
       IntToString(synthetic_amount),
       params.collateral_asset_id,
       IntToString(collateral_amount),
       params.collateral_asset_id,
       MagToString(fee_amount),
       MagToString(expiration),
       MagToString(nonce),
       public_key_hex(signer),
       params.domain.name,
       params.domain.version,
       params.domain.chain_id,
       params.domain.revision >>

\* `format!("{:#x}", r)`, `format!("{:#x}", s)`
signature_hex(sig) == [r |-> FeltToHex(sig.r), s |-> FeltToHex(sig.s)]

\* variant: the fee rate overwritten by the hashed fee amount as well
signed_order_with_fee_amount(order, signer, params, amounts, order_hash, sig) ==
    [order EXCEPT
        !.id = MagToString(BigUintFromBytesBE(FeltToBytesBE(order_hash))),
        !.fee = DecFromInt(AsI64(amounts.fee.mag)),
        !.settlement = Some(
            [signature |-> signature_hex(sig),
             stark_key |-> public_key_hex(signer),
             collateral_position |-> DecFromInt(MkInt(FALSE, params.vault_id))]),
        !.debugging_amounts = Some(
            [synthetic_amount |-> DecFromInt(amounts.synthetic),
             collateral_amount |-> DecFromInt(amounts.collateral),
             fee_amount |-> DecFromInt(AsI64(amounts.fee.mag))])]

\* variant: the settlement carries the key derived from the private key
signed_order_with_derived_key(order, signer, params, amounts, order_hash, sig) ==
    [order EXCEPT
        !.id = MagToString(BigUintFromBytesBE(FeltToBytesBE(order_hash))),
        !.settlement = Some(
            [signature |-> signature_hex(sig),
             stark_key |-> public_key_hex_derived(signer),
             collateral_position |-> DecFromInt(MkInt(FALSE, params.vault_id))]),
        !.debugging_amounts = Some(
            [synthetic_amount |-> DecFromInt(amounts.synthetic),
             collateral_amount |-> DecFromInt(amounts.collateral),
             fee_amount |-> DecFromInt(AsI64(amounts.fee.mag))])]

\* variant: a post-only order keeps the id it came with
signed_order_keeping_post_only_id(order, signer, params, amounts, order_hash, sig) ==
    [order EXCEPT
        !.id = IF order.post_only THEN order.id
               ELSE MagToString(BigUintFromBytesBE(FeltToBytesBE(order_hash))),
        !.settlement = Some(
            [signature |-> signature_hex(sig),
             stark_key |-> public_key_hex(signer),
             collateral_position |-> DecFromInt(MkInt(FALSE, params.vault_id))]),
        !.debugging_amounts = Some(
            [synthetic_amount |-> DecFromInt(amounts.synthetic),
             collateral_amount |-> DecFromInt(amounts.collateral),
             fee_amount |-> DecFromInt(AsI64(amounts.fee.mag))])]

\* the order as returned: id, settlement and debugging amounts set
signed_order(order, signer, params, amounts, order_hash, sig) ==
    [order EXCEPT
        !.id = MagToString(BigUintFromBytesBE(FeltToBytesBE(order_hash))),
        !.settlement = Some(
            [signature |-> signature_hex(sig),
             stark_key |-> public_key_hex(signer),
             collateral_position |-> DecFromInt(MkInt(FALSE, params.vault_id))]),
        !.debugging_amounts = Some(
            [synthetic_amount |-> DecFromInt(amounts.synthetic),
             collateral_amount |-> DecFromInt(amounts.collateral),
             fee_amount |-> DecFromInt(AsI64(amounts.fee.mag))])]

\* sign_order_with_params from `signer.sign(&order_hash)?` on; sig is the
\* outcome of that call
attach_signature(order, signer, params, amounts, preimage, order_hash, sig) ==
    IF sig.kind # "ok"
    THEN Failed(sig, Trace(Some(amounts), Some(preimage), Some(order_hash), None))
    ELSE Outcome("ok", "", Some(signed_order(order, signer, params, amounts, order_hash, sig.val)),
                 Trace(Some(amounts), Some(preimage), Some(order_hash), Some(sig.val)))

\* sign_order_with_params from the `.map_err(..)?` on the hash on
sign_order_hash(order, signer, params, amounts, preimage, order_hash) ==
    IF order_hash.kind # "ok"
    THEN Outcome("err", "Failed to compute order hash", None,
                 Trace(Some(amounts), Some(preimage), None, None))
    ELSE attach_signature(order, signer, params, amounts, preimage, order_hash.val,
                          StarkSigner_sign(signer, order_hash.val))

\* sign_order_with_params from the get_order_hash call on
hash_order(order, signer, params, amounts, preimage) ==
    sign_order_hash(order, signer, params, amounts, preimage, get_order_hash(preimage))

\* `order.nonce.to_u64().unwrap_or(0)`
unwrap_or_zero(nonce_u64) == IF nonce_u64 = None THEN <<>> ELSE nonce_u64.val.mag

\* sign_order_with_params after `calculate_stark_amounts(&order, params)?`:
\* amounts and expiration are the outcomes of the two calculations
sign_order_amounts(order, signer, params, amounts, expiration) ==
    IF amounts.kind # "ok" THEN Failed(amounts, NoTrace)
    ELSE IF expiration.kind # "ok"
    THEN Failed(expiration, Trace(Some(amounts.val), None, None, None))
    ELSE hash_order(order, signer, params, amounts.val,
                    order_hash_fields(params, amounts.val.synthetic, amounts.val.collateral,
                                      amounts.val.fee.mag, expiration.val,
                                      unwrap_or_zero(DecToU64(order.nonce)), signer))

\* sign_order_with_params
sign_order_with_params(order, signer, params, profile) ==
    sign_order_amounts(order, signer, params,
                       calculate_stark_amounts(order, params, profile),
                       calculate_settlement_expiration(order.expiry_epoch_millis, profile))

\* sign_order after the vault id is parsed
sign_order_parsed(order, signer, vault_id_u32, synthetic_asset_id, synthetic_resolution, domain, profile) ==
    IF vault_id_u32 = None THEN Outcome("err", "Invalid vault ID", None, NoTrace)
    ELSE sign_order_with_params(order, signer,
                                [vault_id |-> vault_id_u32.val,
                                 synthetic_asset_id |-> synthetic_asset_id,
                                 synthetic_resolution |-> synthetic_resolution,
                                 collateral_asset_id |-> <<"0", "x", "1">>,
                                 domain |-> domain],
                                profile)

\* sign_order
sign_order(order, signer, vault_id, synthetic_asset_id, synthetic_resolution, domain, profile) ==
    sign_order_parsed(order, signer, ParseU32(vault_id), synthetic_asset_id,
                      synthetic_resolution, domain, profile)

(***************************************************************************)
(* Withdrawal and transfer signing                                         *)
(***************************************************************************)
\* the `(amount * Decimal::from(COLLATERAL_RESOLUTION)).to_u64()
\*      .ok_or_else(..)?` conversion
amount_to_u64(scaled) ==
    IF scaled.kind # "ok" THEN scaled
    ELSE ok_or_else(DecToU64(scaled.val), "Amount overflow")

\* the end of sign_withdrawal and of sign_transfer, from `signer.sign(&hash)?`
\* on: request holds the fields copied from the arguments
attach_request_signature(request, amount_stark, preimage, hash, sig) ==
    IF sig.kind # "ok"
    THEN Failed(sig, Trace(Some(amount_stark), Some(preimage), Some(hash), None))
    ELSE Outcome("ok", "", Some([f \in DOMAIN request \cup {"signature"} |->
                                    IF f = "signature" THEN signature_hex(sig.val)
                                    ELSE request[f]]),
                 Trace(Some(amount_stark), Some(preimage), Some(hash), Some(sig.val)))

\* the same from the `.map_err(..)?` on the hash on
sign_request_hash(request, signer, amount_stark, preimage, hash, what) ==
    IF hash.kind # "ok"
    THEN Outcome("err", what, None, Trace(Some(amount_stark), Some(preimage), None, None))
    ELSE attach_request_signature(request, amount_stark, preimage, hash.val,
                                  StarkSigner_sign(signer, hash.val))

\* the argument list of the get_withdrawal_hash call
withdrawal_hash_fields(recipient, vault_id_u32, collateral_asset_id, amount_stark, expiration, nonce, signer, domain) ==
    << recipient,
       MagToString(vault_id_u32),
       collateral_asset_id,
       MagToString(amount_stark),
       MagToString(expiration),
       MagToString(nonce),
       public_key_hex(signer),
       domain.name, domain.version, domain.chain_id, domain.revision >>

\* sign_withdrawal from the get_withdrawal_hash call on
hash_withdrawal(request, signer, amount_stark, preimage) ==
    sign_request_hash(request, signer, amount_stark, preimage, get_withdrawal_hash(preimage),
                      "Failed to compute withdrawal hash")

\* sign_withdrawal after its three leading computations
sign_withdrawal_amount(amount, recipient, nonce, expiry_millis, vault_id_u32, collateral_asset_id, signer, domain, amount_stark, expiration) ==
    IF vault_id_u32 = None THEN Outcome("err", "Invalid vault ID", None, NoTrace)
    ELSE IF amount_stark.kind # "ok" THEN Failed(amount_stark, NoTrace)
    ELSE IF expiration.kind # "ok"
    THEN Failed(expiration, Trace(Some(amount_stark.val), None, None, None))
    ELSE hash_withdrawal([amount |-> amount,
                          recipient |-> recipient,
                          nonce |-> nonce,
                          expiry_epoch_millis |-> expiry_millis],
                         signer, amount_stark.val,
                         withdrawal_hash_fields(recipient, vault_id_u32.val, collateral_asset_id,
                                                amount_stark.val.mag, expiration.val, nonce,
                                                signer, domain))

\* sign_withdrawal
sign_withdrawal(amount, recipient, nonce, expiry_millis, vault_id, collateral_asset_id, signer, domain, profile) ==
    sign_withdrawal_amount(amount, recipient, nonce, expiry_millis, ParseU32(vault_id),
                           collateral_asset_id, signer, domain,
                           amount_to_u64(DecMul(amount, DecFromInt(IntOf(COLLATERAL_RESOLUTION)))),
                           calculate_settlement_expiration(expiry_millis, profile))

\* the argument list of the get_transfer_hash call
transfer_hash_fields(recipient_vault_id, sender_vault_id, collateral_asset_id, amount_stark, expiration, nonce, signer, domain) ==
    << recipient_vault_id,
       sender_vault_id,
       collateral_asset_id,
       MagToString(amount_stark),
       MagToString(expiration),
       MagToString(nonce),
       public_key_hex(signer),
       domain.name, domain.version, domain.chain_id, domain.revision >>

\* sign_transfer from the get_transfer_hash call on
hash_transfer(request, signer, amount_stark, preimage) ==
    sign_request_hash(request, signer, amount_stark, preimage, get_transfer_hash(preimage),
                      "Failed to compute transfer hash")

\* sign_transfer after its two leading computations
sign_transfer_amount(amount, recipient_vault_id, sender_vault_id, nonce, expiry_millis, collateral_asset_id, signer, domain, amount_stark, expiration) ==
    IF amount_stark.kind # "ok" THEN Failed(amount_stark, NoTrace)
    ELSE IF expiration.kind # "ok"
    THEN Failed(expiration, Trace(Some(amount_stark.val), None, None, None))
    ELSE hash_transfer([amount |-> amount,
                        recipient_account_id |-> recipient_vault_id,
                        nonce |-> nonce,
                        expiry_epoch_millis |-> expiry_millis],
                       signer, amount_stark.val,
                       transfer_hash_fields(recipient_vault_id, sender_vault_id,
                                            collateral_asset_id, amount_stark.val.mag,
                                            expiration.val, nonce, signer, domain))

\* sign_transfer
sign_transfer(amount, recipient_vault_id, sender_vault_id, nonce, expiry_millis, collateral_asset_id, signer, domain, profile) ==
    sign_transfer_amount(amount, recipient_vault_id, sender_vault_id, nonce, expiry_millis,
                         collateral_asset_id, signer, domain,
                         amount_to_u64(DecMul(amount, DecFromInt(IntOf(COLLATERAL_RESOLUTION)))),
                         calculate_settlement_expiration(expiry_millis, profile))

(***************************************************************************)
(* OrderBuilder                                                            *)
(***************************************************************************)
DEFAULT_FEE_RATE == Dec(FALSE, MagOf(5), 4)

\* OrderBuilder::limit
OrderBuilder_limit(market, side, price, quantity, post_only, reduce_only) ==
    [market |-> market,
     side |-> side,
     order_type |-> "Limit",
     price |-> price,
     quantity |-> quantity,
     fee |-> DEFAULT_FEE_RATE,
     nonce |-> None,
     time_in_force |-> "GoodTillTime",
     reduce_only |-> reduce_only,
     post_only |-> post_only,
     external_id |-> None,
     trigger_price |-> None,
     trigger_type |-> None,
     expiry_epoch_millis |-> None,
     self_trade_protection |-> "Disabled"]

\* variant: the nonce read from the clock whether or not one was set
OrderBuilder_build_clock_nonce(self, nonce_now, expiry_now) ==
    LET nonce == nonce_now
        expiry == IF self.expiry_epoch_millis = None
                  THEN IntAdd(MkInt(FALSE, expiry_now), IntOf(3600 * 1000))
                  ELSE self.expiry_epoch_millis.val
        id == IF self.external_id = None THEN MagToString(nonce) ELSE self.external_id.val
    IN  [id |-> id,
         market |-> self.market,
         side |-> self.side,
         order_type |-> self.order_type,
         price |-> self.price,
         quantity |-> self.quantity,
         reduce_only |-> self.reduce_only,
         post_only |-> self.post_only,
         time_in_force |-> self.time_in_force,
         expiry_epoch_millis |-> expiry,
         fee |-> self.fee,
         nonce |-> DecFromInt(MkInt(FALSE, nonce)),
         self_trade_protection_level |-> self.self_trade_protection,
         cancel_id |-> None,
         settlement |-> None,
         trigger |-> None,
         tp_sl_type |-> None,
         take_profit |-> None,
         stop_loss |-> None,
         debugging_amounts |-> None,
         builder_fee |-> None,
         builder_id |-> None]

\* OrderBuilder::build; nonce_now and expiry_now are the two readings of
\* SystemTime::now(), in milliseconds
OrderBuilder_build(self, nonce_now, expiry_now) ==
    LET nonce == IF self.nonce = None THEN nonce_now ELSE self.nonce.val
        expiry == IF self.expiry_epoch_millis = None
                  THEN IntAdd(MkInt(FALSE, expiry_now), IntOf(3600 * 1000))
                  ELSE self.expiry_epoch_millis.val
        id == IF self.external_id = None THEN MagToString(nonce) ELSE self.external_id.val
    IN  [id |-> id,
         market |-> self.market,
         side |-> self.side,
         order_type |-> self.order_type,
         price |-> self.price,
         quantity |-> self.quantity,
         reduce_only |-> self.reduce_only,
         post_only |-> self.post_only,
         time_in_force |-> self.time_in_force,
         expiry_epoch_millis |-> expiry,
         fee |-> self.fee,
         nonce |-> DecFromInt(MkInt(FALSE, nonce)),
         self_trade_protection_level |-> self.self_trade_protection,
         cancel_id |-> None,
         settlement |-> None,
         trigger |-> None,
         tp_sl_type |-> None,
         take_profit |-> None,
         stop_loss |-> None,
         debugging_amounts |-> None,
         builder_fee |-> None,
         builder_id |-> None]

(***************************************************************************)
(* MarketConfig: rounding to the tick size and the step size               *)
(***************************************************************************)
\* the two fields of MarketConfig the rounding methods read
MarketConfig(min_price_change, min_order_size_change) ==
    [min_price_change |-> min_price_change, min_order_size_change |-> min_order_size_change]

round_price_down(self, price) ==
    Mul(Floor(DecDiv(price, self.min_price_change)), Val(self.min_price_change))

round_price_up(self, price) ==
    Mul(Ceil(DecDiv(price, self.min_price_change)), Val(self.min_price_change))

round_qty_down(self, quantity) ==
    Mul(Floor(DecDiv(quantity, self.min_order_size_change)), Val(self.min_order_size_change))

round_qty_up(self, quantity) ==
    Mul(Ceil(DecDiv(quantity, self.min_order_size_change)), Val(self.min_order_size_change))

(***************************************************************************)
(* Input domains                                                           *)
(***************************************************************************)
MaxMant == 2
MaxScale == 1

Pow10(k) == MagShl(One, k)

\* the decimals m / 10^sc for |m| <= MaxMant, sc <= MaxScale
GridDecimals ==
    {Dec(FALSE, MagOf(m), sc) : m \in 0..MaxMant, sc \in 0..MaxScale}
    \cup {Dec(TRUE, MagOf(m), sc) : m \in 1..MaxMant, sc \in 0..MaxScale}

Sides == {"Buy", "Sell"}

AmountQuantities ==
    GridDecimals \cup
    { Dec(FALSE, MagOf(5234), 5),               \* 0.05234
      Dec(FALSE, MagOf(1), 9),                  \* 0.000000001
      Dec(FALSE, MagOf(16), 9),                 \* 0.000000016
      Dec(FALSE, MagOf(15), 1),                 \* 1.5
      Dec(FALSE, MagMul(MagOf(92233), MagOf(1000000)), 0),            \* 92233000000
      Dec(FALSE, MagAdd(MagMul(MagOf(92233), MagOf(1000000)), MagOf(720369)), 0), \* 92233720369
      Dec(TRUE, Two63, 8),                      \* -92233720368.54775808
      Dec(FALSE, Pow10(21), 0) }                \* 10^21

AmountPrices ==
    { Dec(FALSE, MagOf(93050), 0),
      Dec(FALSE, MagOf(1000001), 6),            \* 1.000001
      Dec(FALSE, <<>>, 0),
      Dec(TRUE, MagOf(3), 0),
      Dec(FALSE, MagShl(MagOf(4), 12), 0),      \* 4 * 10^12
      Dec(FALSE, Pow10(20), 0) }

AmountFees ==
    { Dec(FALSE, <<>>, 0),
      Dec(TRUE, MagOf(5), 4),                   \* -0.0005
      Dec(FALSE, MagOf(3), 7),                  \* 0.0000003
      Dec(FALSE, MagOf(4), 0) }

AmountResolutions == {IntOf(100000000), IntOf(1), IntOf(0), IntOf(0 - 100)}

HexOne == <<"0", "x", "1">>
HexSynthetic == <<"0", "x", "4", "e">>
NotHex == <<"0", "x", "Z">>

Mainnet == [name |-> <<"P", "e", "r", "p", "e", "t", "u", "a", "l", "s">>,
            version |-> <<"v", "0">>,
            chain_id |-> <<"S", "N", "_", "M", "A", "I", "N">>,
            revision |-> <<"1">>]

Testnet == [Mainnet EXCEPT !.chain_id = <<"S", "N", "_", "S", "E", "P", "O", "L", "I", "A">>]

Domains == {Mainnet, Testnet}

ParamsOf(vault, synthetic_id, resolution, collateral_id, domain) ==
    [vault_id |-> vault,
     synthetic_asset_id |-> synthetic_id,
     synthetic_resolution |-> resolution,
     collateral_asset_id |-> collateral_id,
     domain |-> domain]

AmountParams ==
    {ParamsOf(MagOf(1001), HexSynthetic, r, HexOne, Mainnet) : r \in AmountResolutions}

(***************************************************************************)
(* State                                                                   *)
(***************************************************************************)
VARIABLES
    profile,     \* build profile of the program: overflow checks on or off
    signer,      \* the StarkSigner shared by all calls
    builder,     \* the OrderBuilder under construction, or None
    order,       \* the built, not yet signed CreateOrderRequest, or None
    result,      \* the call made, its inputs and what it returned; NoCall
                 \* before the call
    now,         \* the wall clock (SystemTime::now()), milliseconds since the epoch
    tasks        \* the signing calls in progress on concurrent threads: for
                 \* each thread its call, its position in it and its locals

vars == <<profile, signer, builder, order, result, now, tasks>>

NoCall == [op |-> "none"]

\* no request is being assembled and no call has been made yet
Idle == builder = None /\ order = None /\ result = NoCall

(***************************************************************************)
(* Operations                                                              *)
(***************************************************************************)
Limit(market, side, price, quantity, post_only, reduce_only) ==
    /\ Idle
    /\ builder' = Some(OrderBuilder_limit(market, side, price, quantity, post_only, reduce_only))
    /\ UNCHANGED <<now, tasks, profile, signer, order, result>>

\* OrderBuilder::fee
SetFee(fee) ==
    /\ builder # None
    /\ builder' = Some([builder.val EXCEPT !.fee = fee])
    /\ UNCHANGED <<now, tasks, profile, signer, order, result>>

\* OrderBuilder::nonce
SetNonce(nonce) ==
    /\ builder # None
    /\ builder' = Some([builder.val EXCEPT !.nonce = Some(nonce)])
    /\ UNCHANGED <<now, tasks, profile, signer, order, result>>

\* OrderBuilder::expiry
SetExpiry(expiry_millis) ==
    /\ builder # None
    /\ builder' = Some([builder.val EXCEPT !.expiry_epoch_millis = Some(expiry_millis)])
    /\ UNCHANGED <<now, tasks, profile, signer, order, result>>

\* OrderBuilder::external_id
SetExternalId(id) ==
    /\ builder # None
    /\ builder' = Some([builder.val EXCEPT !.external_id = Some(id)])
    /\ UNCHANGED <<now, tasks, profile, signer, order, result>>

\* OrderBuilder::trigger
SetTrigger(price, trigger_type) ==
    /\ builder # None
    /\ builder' = Some([builder.val EXCEPT !.trigger_price = Some(price),
                                           !.trigger_type = Some(trigger_type),
                                           !.order_type = "Conditional"])
    /\ UNCHANGED <<now, tasks, profile, signer, order, result>>

\* OrderBuilder::build: the clock is read at nonce_now and again at
\* expiry_now, and has not run backwards in between
Build(nonce_now, expiry_now) ==
    /\ builder # None
    /\ MagLe(now, nonce_now)
    /\ MagLe(nonce_now, expiry_now)
    /\ order' = Some(OrderBuilder_build(builder.val, nonce_now, expiry_now))
    /\ builder' = None
    /\ now' = expiry_now
    /\ UNCHANGED <<tasks, profile, signer, result>>

SignOrderWithParams(params) ==
    /\ order # None
    /\ result' = [op |-> "sign_order_with_params",
                  order |-> order.val,
                  params |-> params,
                  out |-> sign_order_with_params(order.val, signer, params, profile)]
    /\ order' = None
    /\ UNCHANGED <<now, tasks, profile, signer, builder>>

SignOrder(vault_id, synthetic_asset_id, synthetic_resolution, domain) ==
    /\ order # None
    /\ result' = [op |-> "sign_order",
                  order |-> order.val,
                  params |-> [vault_id |-> vault_id,
                              synthetic_asset_id |-> synthetic_asset_id,
                              synthetic_resolution |-> synthetic_resolution,
                              collateral_asset_id |-> HexOne,
                              domain |-> domain],
                  out |-> sign_order(order.val, signer, vault_id, synthetic_asset_id,
                                     synthetic_resolution, domain, profile)]
    /\ order' = None
    /\ UNCHANGED <<now, tasks, profile, signer, builder>>

SignWithdrawal(amount, recipient, nonce, expiry_millis, vault_id, collateral_asset_id, domain) ==
    /\ Idle
    /\ result' = [op |-> "sign_withdrawal",
                  amount |-> amount,
                  recipient |-> recipient,
                  nonce |-> nonce,
                  expiry_millis |-> expiry_millis,
                  vault_id |-> vault_id,
                  collateral_asset_id |-> collateral_asset_id,
                  domain |-> domain,
                  out |-> sign_withdrawal(amount, recipient, nonce, expiry_millis, vault_id,
                                          collateral_asset_id, signer, domain, profile)]
    /\ UNCHANGED <<now, tasks, profile, signer, builder, order>>

SignTransfer(amount, recipient_vault_id, sender_vault_id, nonce, expiry_millis, collateral_asset_id, domain) ==
    /\ Idle
    /\ result' = [op |-> "sign_transfer",
                  amount |-> amount,
                  recipient_vault_id |-> recipient_vault_id,
                  sender_vault_id |-> sender_vault_id,
                  nonce |-> nonce,
                  expiry_millis |-> expiry_millis,
                  collateral_asset_id |-> collateral_asset_id,
                  domain |-> domain,
                  out |-> sign_transfer(amount, recipient_vault_id, sender_vault_id, nonce,
                                        expiry_millis, collateral_asset_id, signer, domain,
                                        profile)]
    /\ UNCHANGED <<now, tasks, profile, signer, builder, order>>

CalculateSettlementExpiration(expiry_epoch_millis) ==
    /\ Idle
    /\ result' = [op |-> "calculate_settlement_expiration",
                  input |-> expiry_epoch_millis,
                  out |-> calculate_settlement_expiration(expiry_epoch_millis, profile)]
    /\ UNCHANGED <<now, tasks, profile, signer, builder, order>>

VerifyPublicKey ==
    /\ Idle
    /\ result' = [op |-> "verify_public_key", out |-> verify_public_key(signer)]
    /\ UNCHANGED <<now, tasks, profile, signer, builder, order>>

FromHex(hex_key) ==
    /\ Idle
    /\ result' = [op |-> "from_hex",
                  hex_key |-> hex_key,
                  out |-> StarkSigner_from_hex(hex_key)]
    /\ UNCHANGED <<now, tasks, profile, signer, builder, order>>

FromHexWithPublicKey(private_hex, public_hex) ==
    /\ Idle
    /\ result' = [op |-> "from_hex_with_public_key",
                  private_key_hex |-> private_hex,
                  public_key_hex |-> public_hex,
                  out |-> StarkSigner_from_hex_with_public_key(private_hex, public_hex)]
    /\ UNCHANGED <<now, tasks, profile, signer, builder, order>>

NewTradingClient(account, http_client) ==
    /\ Idle
    /\ result' = [op |-> "TradingClient_new",
                  account |-> account,
                  http_client |-> http_client,
                  out |-> TradingClient_new(account, http_client)]
    /\ UNCHANGED <<now, tasks, profile, signer, builder, order>>

RoundingOps == {"round_price_down", "round_price_up", "round_qty_down", "round_qty_up"}

\* a value is rounded as the caller has it, or after one rounding on the
\* same market has returned it
Roundable(self, value) ==
    /\ builder = None /\ order = None
    /\ \/ result = NoCall
       \/ /\ result.op \in RoundingOps
          /\ result.previous = NoCall
          /\ result.out.kind = "ok"
          /\ result.config = self
          /\ result.out.val = value

RoundingResult(op, self, value, grid, out) ==
    [op |-> op, config |-> self, value |-> value, grid |-> grid, previous |-> result, out |-> out]

\* MarketConfig::round_price_down
RoundPriceDown(self, price) ==
    /\ Roundable(self, price)
    /\ result' = RoundingResult("round_price_down", self, price, self.min_price_change,
                                round_price_down(self, price))
    /\ UNCHANGED <<now, tasks, profile, signer, builder, order>>

\* MarketConfig::round_price_up
RoundPriceUp(self, price) ==
    /\ Roundable(self, price)
    /\ result' = RoundingResult("round_price_up", self, price, self.min_price_change,
                                round_price_up(self, price))
    /\ UNCHANGED <<now, tasks, profile, signer, builder, order>>

\* MarketConfig::round_qty_down
RoundQtyDown(self, quantity) ==
    /\ Roundable(self, quantity)
    /\ result' = RoundingResult("round_qty_down", self, quantity, self.min_order_size_change,
                                round_qty_down(self, quantity))
    /\ UNCHANGED <<now, tasks, profile, signer, builder, order>>

\* MarketConfig::round_qty_up
RoundQtyUp(self, quantity) ==
    /\ Roundable(self, quantity)
    /\ result' = RoundingResult("round_qty_up", self, quantity, self.min_order_size_change,
                                round_qty_up(self, quantity))
    /\ UNCHANGED <<now, tasks, profile, signer, builder, order>>

(***************************************************************************)
(* Signing calls on concurrent threads.  Each thread runs one call on its  *)
(* own request; the threads share the signer through `&StarkSigner`.  A    *)
(* call advances in the steps at which it reads the signer or may return:  *)
(* amounts, expiration, hash (reads the public key), sign (reads the       *)
(* private key), return (reads the public key, order calls only).          *)
(***************************************************************************)
IdleTask == [pc |-> "idle"]

\* variant: the callee stores the key it derives in the signer
exclusive_borrow(self) == [self EXCEPT !.public_key = get_public_key(self.private_key)]

\* the signer after a method taking `&self` has run on it
shared_borrow(self) == self

\* the call up to its canonical amount: calculate_stark_amounts for an order,
\* the vault id and the scaled amount for a withdrawal, the scaled amount for
\* a transfer
task_amounts(call, overflow_checks) ==
    IF call.op = "sign_order_with_params"
    THEN calculate_stark_amounts(call.order, call.params, overflow_checks)
    ELSE IF call.op = "sign_withdrawal" /\ ParseU32(call.vault_id) = None
    THEN Err("Invalid vault ID")
    ELSE amount_to_u64(DecMul(call.amount, DecFromInt(IntOf(COLLATERAL_RESOLUTION))))

\* the argument list of the call's hash function
task_preimage(call, amounts, expiration, self) ==
    IF call.op = "sign_order_with_params"
    THEN order_hash_fields(call.params, amounts.synthetic, amounts.collateral, amounts.fee.mag,
                           expiration, unwrap_or_zero(DecToU64(call.order.nonce)), self)
    ELSE IF call.op = "sign_withdrawal"
    THEN withdrawal_hash_fields(call.recipient, ParseU32(call.vault_id).val,
                                call.collateral_asset_id, amounts.mag, expiration,
                                call.nonce, self, call.domain)
    ELSE transfer_hash_fields(call.recipient_vault_id, call.sender_vault_id,
                              call.collateral_asset_id, amounts.mag, expiration,
                              call.nonce, self, call.domain)

\* variant: the wall clock is hashed along with the fields
task_hash_timestamped(call, preimage) ==
    IF call.op = "sign_order_with_params" THEN get_order_hash(Append(preimage, MagToString(now)))
    ELSE IF call.op = "sign_withdrawal" THEN get_withdrawal_hash(Append(preimage, MagToString(now)))
    ELSE get_transfer_hash(Append(preimage, MagToString(now)))

\* the call's hash function applied to it
task_hash(call, preimage) ==
    IF call.op = "sign_order_with_params" THEN get_order_hash(preimage)
    ELSE IF call.op = "sign_withdrawal" THEN get_withdrawal_hash(preimage)
    ELSE get_transfer_hash(preimage)

\* the fields a withdrawal or transfer request copies from the arguments
task_request(call) ==
    IF call.op = "sign_withdrawal"
    THEN [amount |-> call.amount, recipient |-> call.recipient, nonce |-> call.nonce,
          expiry_epoch_millis |-> call.expiry_millis]
    ELSE [amount |-> call.amount, recipient_account_id |-> call.recipient_vault_id,
          nonce |-> call.nonce, expiry_epoch_millis |-> call.expiry_millis]

\* what the call returns when its hash function fails
task_hash_failed(call, amounts, preimage) ==
    Outcome("err",
            IF call.op = "sign_order_with_params" THEN "Failed to compute order hash"
            ELSE IF call.op = "sign_withdrawal" THEN "Failed to compute withdrawal hash"
            ELSE "Failed to compute transfer hash",
            None, Trace(Some(amounts), Some(preimage), None, None))

\* what the call returns after `signer.sign(..)`: sig is the outcome of that
\* call, self the signer as the return statement reads it
task_return(call, self, amounts, preimage, hash, sig) ==
    IF call.op = "sign_order_with_params"
    THEN attach_signature(call.order, self, call.params, amounts, preimage, hash, sig)
    ELSE attach_request_signature(task_request(call), amounts, preimage, hash, sig)

Done(task, out) == [task EXCEPT !.pc = "done", !.out = out]

\* a thread is handed a call and a reference to the signer
Start(t, call) ==
    /\ tasks[t].pc = "idle"
    /\ tasks' = [tasks EXCEPT ![t] =
                    [pc |-> "amounts", call |-> call, signer_at_start |-> signer,
                     overlaps |-> \E u \in DOMAIN tasks : tasks[u].pc \notin {"idle", "done"},
                     amounts |-> None, expiration |-> None, preimage |-> None,
                     hash |-> None, sig |-> None, out |-> None, returned_at |-> None]]
    /\ UNCHANGED <<now, profile, signer, builder, order, result>>

TaskAmounts(t, amounts) ==
    /\ tasks[t].pc = "amounts"
    /\ tasks' = [tasks EXCEPT ![t] =
                    IF amounts.kind # "ok" THEN Done(tasks[t], Failed(amounts, NoTrace))
                    ELSE [tasks[t] EXCEPT !.pc = "expiration", !.amounts = amounts.val]]
    /\ UNCHANGED <<now, profile, signer, builder, order, result>>

TaskExpiration(t, expiration) ==
    /\ tasks[t].pc = "expiration"
    /\ tasks' = [tasks EXCEPT ![t] =
                    IF expiration.kind # "ok"
                    THEN Done(tasks[t], Failed(expiration,
                                               Trace(Some(tasks[t].amounts), None, None, None)))
                    ELSE [tasks[t] EXCEPT !.pc = "hash", !.expiration = expiration.val]]
    /\ UNCHANGED <<now, profile, signer, builder, order, result>>

TaskHash(t, preimage, hash) ==
    /\ tasks[t].pc = "hash"
    /\ tasks' = [tasks EXCEPT ![t] =
                    IF hash.kind # "ok"
                    THEN Done(tasks[t], task_hash_failed(tasks[t].call, tasks[t].amounts, preimage))
                    ELSE [tasks[t] EXCEPT !.pc = "sign", !.preimage = preimage,
                                          !.hash = hash.val]]
    /\ signer' = shared_borrow(signer)
    /\ UNCHANGED <<now, profile, builder, order, result>>

TaskSign(t) ==
    /\ tasks[t].pc = "sign"
    /\ tasks' = [tasks EXCEPT ![t] =
                    [tasks[t] EXCEPT !.pc = "return",
                                     !.sig = StarkSigner_sign(signer, tasks[t].hash)]]
    /\ signer' = shared_borrow(signer)
    /\ UNCHANGED <<now, profile, builder, order, result>>

TaskReturn(t) ==
    /\ tasks[t].pc = "return"
    /\ tasks' = [tasks EXCEPT ![t] =
                    [Done(tasks[t], task_return(tasks[t].call, signer, tasks[t].amounts,
                                                tasks[t].preimage, tasks[t].hash, tasks[t].sig))
                        EXCEPT !.returned_at = now]]
    /\ signer' = shared_borrow(signer)
    /\ UNCHANGED <<now, profile, builder, order, result>>

MaxTicks == 1

ClockStart == MagOf(1700000000)

\* the wall clock advances
Tick ==
    /\ MagLt(now, MagAdd(ClockStart, MagOf(MaxTicks)))
    /\ now' = MagAdd(now, One)
    /\ UNCHANGED <<tasks, profile, signer, builder, order, result>>

(***************************************************************************)
(* Specification of amount canonicalization: orders over the numeric       *)
(* input domain, one signer                                                *)
(***************************************************************************)
InitAmounts ==
    /\ profile \in Profiles
    /\ signer = StarkSigner_new(5)
    /\ builder = None
    /\ order = None
    /\ result = NoCall
    /\ now = ClockStart
    /\ tasks = <<>>

NextAmounts ==
    \/ \E side \in Sides, price \in AmountPrices, quantity \in AmountQuantities :
          Limit("BTC-USD", side, price, quantity, FALSE, FALSE)
    \/ \E fee \in AmountFees : SetFee(fee)
    \/ Build(ClockStart, ClockStart)
    \/ \E params \in AmountParams : SignOrderWithParams(params)

SpecAmounts == InitAmounts /\ [][NextAmounts]_vars

(***************************************************************************)
(* Specification of the expiration calculator over i64 inputs              *)
(***************************************************************************)
MaxOffset == 12

BUFFER_MILLIS == 14 * 24 * 60 * 60 * 1000

ExpiryOffsets ==
    {k * 125 : k \in (0 - MaxOffset)..MaxOffset} \cup {0 - 1001, 0 - 999, 0 - 1, 1, 999, 1001}

ExpiryBases ==
    { IntOf(0),
      IntOf(0 - BUFFER_MILLIS),
      MkInt(FALSE, MagMul(MagOf(1800000), MagOf(1000000))) }   \* 1_800_000_000_000

ExpiryInputs ==
    {IntAdd(base, IntOf(k)) : base \in ExpiryBases, k \in ExpiryOffsets}
    \cup {MkInt(FALSE, I64_MAX), I64_MIN_VALUE}

InitExpiry == InitAmounts

NextExpiry == \E e \in ExpiryInputs : CalculateSettlementExpiration(e)

SpecExpiry == InitExpiry /\ [][NextExpiry]_vars

(***************************************************************************)
(* Specification of the signing pipeline: signers with derived and with    *)
(* supplied public keys, orders from the builder, the three signing entry  *)
(* points and the key check                                                *)
(***************************************************************************)
PrivateKeys == {0, 5}
SuppliedPublicKeys == {300}

Signers ==
    {StarkSigner_new(k) : k \in PrivateKeys}
    \cup {StarkSigner_with_public_key(k, pk) : k \in PrivateKeys, pk \in SuppliedPublicKeys}

Prices == {Dec(FALSE, MagOf(93050), 0)}

Quantities ==
    { Dec(FALSE, MagOf(5234), 5),               \* 0.05234
      Dec(FALSE, MagAdd(MagMul(MagOf(92233), MagOf(1000000)), MagOf(720369)), 0), \* 92233720369
      Dec(FALSE, Pow10(21), 0) }                \* 10^21

ReferenceNonce ==
    MagAdd(MagMul(MagOf(1234567890), Pow10(10)), MagOf(1234567890))   \* 12345678901234567890

ReferenceExpiry == MkInt(FALSE, MagMul(MagOf(1800000), MagOf(1000000)))   \* 1_800_000_000_000

Nonces == {ReferenceNonce}
Expiries == {ReferenceExpiry, IntOf(0 - 1)}
ExternalIds == {<<"m", "y", "-", "i", "d">>}
Clock == {ClockStart}

VaultStrings == {<<"1", "0", "0", "1">>, <<"1", "2", "a">>}
HexRecipient == <<"0", "x", "a", "b", "c">>

SigningParams ==
    {ParamsOf(MagOf(1001), synthetic_id, IntOf(100000000), HexOne, domain) :
        synthetic_id \in {HexSynthetic, NotHex}, domain \in Domains}

TransferAmounts ==
    { Dec(FALSE, MagOf(15), 1),                 \* 1.5
      Dec(FALSE, MagOf(15), 7),                 \* 0.0000015
      Dec(TRUE, MagOf(1), 0),                   \* -1
      Dec(FALSE, MagShl(MagOf(2), 13), 0),      \* 2 * 10^13
      Dec(FALSE, Pow10(25), 0) }                \* 10^25

HexKeys ==
    { <<"0", "x", "5">>, <<"5">>, <<"0", "x", "1", "2", "c">>,
      NotHex, <<"1", "2", "g">>, <<"0", "x", "-", "5">> }

Accounts ==
    {StarkAccount_new(<<"k">>, public_key, private_key, <<"1", "0", "0", "1">>) :
        public_key \in HexKeys, private_key \in HexKeys}

HttpClients == {Val("client"), Err("Http")}

Init ==
    /\ profile \in Profiles
    /\ signer \in Signers
    /\ builder = None
    /\ order = None
    /\ result = NoCall
    /\ now \in Clock
    /\ tasks = <<>>

Next ==
    \/ \E side \in Sides, price \in Prices, quantity \in Quantities :
          Limit("BTC-USD", side, price, quantity, FALSE, FALSE)
    \/ \E nonce \in Nonces : SetNonce(nonce)
    \/ \E expiry_millis \in Expiries : SetExpiry(expiry_millis)
    \/ \E id \in ExternalIds : SetExternalId(id)
    \/ \E nonce_now \in Clock, expiry_now \in Clock : Build(nonce_now, expiry_now)
    \/ \E params \in SigningParams : SignOrderWithParams(params)
    \/ \E vault_id \in VaultStrings :
          SignOrder(vault_id, HexSynthetic, IntOf(100000000), Mainnet)
    \/ \E amount \in TransferAmounts, recipient \in {HexRecipient, NotHex},
          expiry_millis \in Expiries, vault_id \in VaultStrings :
          SignWithdrawal(amount, recipient, MagOf(7), expiry_millis, vault_id, HexOne, Mainnet)
    \/ \E amount \in TransferAmounts, recipient_vault_id \in VaultStrings,
          expiry_millis \in Expiries :
          SignTransfer(amount, recipient_vault_id, <<"1", "0", "0", "1">>, MagOf(7),
                       expiry_millis, HexOne, Mainnet)
    \/ VerifyPublicKey
    \/ \E hex_key \in HexKeys : FromHex(hex_key)
    \/ \E private_hex \in HexKeys, public_hex \in HexKeys :
          FromHexWithPublicKey(private_hex, public_hex)
    \/ \E account \in Accounts, http_client \in HttpClients :
          NewTradingClient(account, http_client)

Spec == Init /\ [][Next]_vars

(***************************************************************************)
(* Specification of market rounding: prices and quantities rounded once    *)
(* or twice on markets with ordinary, extreme and invalid grids            *)
(***************************************************************************)
DecimalMax == Dec(FALSE, MagSub(Two96, One), 0)      \* Decimal::MAX

RoundGrids ==
    { Dec(FALSE, MagOf(1), 1),                  \* 0.1
      Dec(FALSE, MagOf(1), 0),                  \* 1
      Dec(FALSE, MagOf(5), 1),                  \* 0.5
      Dec(FALSE, MagOf(3), 0),                  \* 3
      Dec(FALSE, MagOf(25), 3),                 \* 0.025
      Dec(FALSE, MagOf(2), 0),                  \* 2
      Dec(FALSE, MagSub(Two96, One), 28),       \* 7.9228162514264337593543950335
      Dec(FALSE, <<>>, 0),                      \* 0
      Dec(TRUE, MagOf(1), 1) }                  \* -0.1

MarketConfigs ==
    {MarketConfig(g, g) : g \in RoundGrids}
    \cup {MarketConfig(Dec(FALSE, MagOf(1), 1), Dec(FALSE, MagOf(1), 3))}   \* 0.1, 0.001

RoundValues ==
    GridDecimals \cup
    { Dec(FALSE, MagOf(9305037), 2),            \* 93050.37
      Dec(FALSE, MagOf(5234233), 8),            \* 0.05234233
      Dec(TRUE, MagOf(5234233), 8),             \* -0.05234233
      Dec(FALSE, MagOf(10), 0),
      Dec(TRUE, MagOf(7), 0),
      Dec(FALSE, MagOf(15), 1),                 \* 1.5
      Dec(FALSE, MagSub(Two96, MagOf(2)), 28),  \* 7.9228162514264337593543950334
      DecimalMax }

RoundedOnce ==
    IF result.op \in RoundingOps /\ result.out.kind = "ok" THEN {result.out.val} ELSE {}

InitRounding == InitAmounts

NextRounding ==
    \/ \E self \in MarketConfigs, price \in RoundValues \cup RoundedOnce : RoundPriceDown(self, price)
    \/ \E self \in MarketConfigs, price \in RoundValues \cup RoundedOnce : RoundPriceUp(self, price)
    \/ \E self \in MarketConfigs, quantity \in RoundValues \cup RoundedOnce : RoundQtyDown(self, quantity)
    \/ \E self \in MarketConfigs, quantity \in RoundValues \cup RoundedOnce : RoundQtyUp(self, quantity)

SpecRounding == InitRounding /\ [][NextRounding]_vars

(***************************************************************************)
(* Specification of the builder: a limit order is started, fee, nonce,     *)
(* expiry and external id are set or left out, and the request is built    *)
(* while the clock runs                                                    *)
(***************************************************************************)
BuilderClock == {ClockStart, MagAdd(ClockStart, MagOf(1))}

BuilderFees == {Dec(FALSE, MagOf(25), 5), DecZero}      \* 0.00025, 0

TriggerTypes == {"Mark", "Last"}

InitBuilder == InitAmounts

NextBuilder ==
    \/ \E side \in Sides, quantity \in Quantities :
          Limit("BTC-USD", side, Dec(FALSE, MagOf(93050), 0), quantity, FALSE, FALSE)
    \/ \E fee \in BuilderFees : SetFee(fee)
    \/ \E nonce \in Nonces : SetNonce(nonce)
    \/ \E expiry_millis \in Expiries : SetExpiry(expiry_millis)
    \/ \E id \in ExternalIds : SetExternalId(id)
    \/ \E trigger_type \in TriggerTypes : SetTrigger(Dec(FALSE, MagOf(90000), 0), trigger_type)
    \/ \E nonce_now \in BuilderClock, expiry_now \in BuilderClock : Build(nonce_now, expiry_now)

SpecBuilder == InitBuilder /\ [][NextBuilder]_vars

(***************************************************************************)
(* Specification of re-signing: a request is built and signed, then the    *)
(* caller writes one field of it (the fields of CreateOrderRequest are     *)
(* public) and signs the changed request with the same signer and          *)
(* parameters                                                              *)
(***************************************************************************)
\* the request with one field written
changed_order(request, field, value) == [request EXCEPT ![field] = value]

SignChangedOrder(field, value) ==
    /\ builder = None /\ order = None
    /\ result.op = "sign_order_with_params"
    /\ "previous" \notin DOMAIN result
    /\ value # result.order[field]
    /\ result' = [op |-> "sign_order_with_params",
                  order |-> changed_order(result.order, field, value),
                  params |-> result.params,
                  out |-> sign_order_with_params(changed_order(result.order, field, value),
                                                 signer, result.params, profile),
                  previous |-> result,
                  changed |-> field]
    /\ UNCHANGED <<now, tasks, profile, signer, builder, order>>

LaterExpiry(k) == MkInt(FALSE, MagAdd(ReferenceExpiry.mag, MagOf(k)))

\* changes of the economic fields, below and above the settlement
\* resolution
IntentChanges ==
    { <<"price", Dec(FALSE, MagAdd(MagShl(MagOf(93050), 7), One), 7)>>,        \* 93050.0000001
      <<"price", Dec(FALSE, MagOf(93051), 0)>>,
      <<"quantity", Dec(FALSE, MagAdd(MagShl(MagOf(5234), 7), One), 12)>>,     \* 0.052340000001
      <<"quantity", Dec(FALSE, MagOf(6), 2)>>,                                  \* 0.06
      <<"fee", Dec(FALSE, MagAdd(MagShl(MagOf(5), 7), One), 11)>>,             \* 0.00050000001
      <<"fee", Dec(FALSE, MagOf(1), 3)>>,                                       \* 0.001
      <<"side", "Buy">>, <<"side", "Sell">>,
      <<"nonce", Dec(FALSE, MagOf(7), 0)>>,
      <<"nonce", Dec(FALSE, MagOf(75), 1)>>,                                    \* 7.5
      <<"nonce", Dec(TRUE, MagOf(1), 0)>>,                                      \* -1
      <<"nonce", Dec(FALSE, Two64, 0)>>,                                        \* 2^64
      <<"nonce", DecZero>>,
      <<"expiry_epoch_millis", LaterExpiry(2)>>,
      <<"expiry_epoch_millis", LaterExpiry(1000)>> }

\* changes of the fields that describe the order to the exchange only
LabelChanges ==
    { <<"market", "ETH-USD">>,
      <<"order_type", "Market">>,
      <<"time_in_force", "ImmediateOrCancel">>,
      <<"reduce_only", TRUE>>,
      <<"post_only", TRUE>>,
      <<"self_trade_protection_level", "Account">>,
      <<"id", <<"m", "y", "-", "i", "d">>>> }

IntentParams == ParamsOf(MagOf(1001), HexSynthetic, IntOf(100000000), HexOne, Mainnet)

InitIntent == InitAmounts

NextIntent ==
    \/ \E side \in Sides, quantity \in {Dec(FALSE, MagOf(5234), 5), DecZero} :
          Limit("BTC-USD", side, Dec(FALSE, MagOf(93050), 0), quantity, FALSE, FALSE)
    \/ \E nonce \in Nonces \cup {MagOf(7), MagOf(0)} : SetNonce(nonce)
    \/ \E expiry_millis \in {ReferenceExpiry, LaterExpiry(1)} : SetExpiry(expiry_millis)
    \/ Build(ClockStart, ClockStart)
    \/ SignOrderWithParams(IntentParams)
    \/ \E change \in IntentChanges \cup LabelChanges : SignChangedOrder(change[1], change[2])

SpecIntent == InitIntent /\ [][NextIntent]_vars

(***************************************************************************)
(* Specification of concurrent signing: two threads, each running one      *)
(* signing call, sharing one signer, while the wall clock advances         *)
(***************************************************************************)
Threads == {"t1", "t2"}

TaskSigners ==
    {StarkSigner_new(0), StarkSigner_new(5), StarkSigner_with_public_key(5, 300)}

TaskOrder(quantity) ==
    OrderBuilder_build(
        [OrderBuilder_limit("BTC-USD", "Buy", Dec(FALSE, MagOf(93050), 0), quantity, FALSE, FALSE)
            EXCEPT !.nonce = Some(ReferenceNonce), !.expiry_epoch_millis = Some(ReferenceExpiry)],
        ClockStart, ClockStart)

WithdrawalCall(recipient, expiry_millis) ==
    [op |-> "sign_withdrawal", amount |-> Dec(FALSE, MagOf(15), 1), recipient |-> recipient,
     nonce |-> MagOf(7), expiry_millis |-> expiry_millis, vault_id |-> <<"1", "0", "0", "1">>,
     collateral_asset_id |-> HexOne, domain |-> Mainnet]

TaskCalls ==
    { [op |-> "sign_order_with_params", order |-> TaskOrder(q),
       params |-> ParamsOf(MagOf(1001), HexSynthetic, IntOf(100000000), HexOne, Mainnet)] :
         q \in {Dec(FALSE, MagOf(5234), 5), Dec(FALSE, Pow10(21), 0)} }
    \cup { WithdrawalCall(HexRecipient, ReferenceExpiry),
           WithdrawalCall(NotHex, ReferenceExpiry),
           WithdrawalCall(HexRecipient, IntOf(0 - 1)) }
    \cup { [op |-> "sign_transfer", amount |-> Dec(FALSE, MagOf(15), 1),
            recipient_vault_id |-> <<"2", "0", "0", "2">>,
            sender_vault_id |-> <<"1", "0", "0", "1">>, nonce |-> MagOf(7),
            expiry_millis |-> ReferenceExpiry, collateral_asset_id |-> HexOne,
            domain |-> Mainnet] }

InitTasks ==
    /\ profile \in Profiles
    /\ signer \in TaskSigners
    /\ builder = None
    /\ order = None
    /\ result = NoCall
    /\ now = ClockStart
    /\ tasks = [t \in Threads |-> IdleTask]

NextTasks ==
    \/ \E t \in Threads, call \in TaskCalls : Start(t, call)
    \/ \E t \in Threads : TaskAmounts(t, task_amounts(tasks[t].call, profile))
    \/ \E t \in Threads :
          TaskExpiration(t, calculate_settlement_expiration(
                                IF tasks[t].call.op = "sign_order_with_params"
                                THEN tasks[t].call.order.expiry_epoch_millis
                                ELSE tasks[t].call.expiry_millis, profile))
    \/ \E t \in Threads :
          TaskHash(t, task_preimage(tasks[t].call, tasks[t].amounts, tasks[t].expiration, signer),
                   task_hash(tasks[t].call,
                             task_preimage(tasks[t].call, tasks[t].amounts, tasks[t].expiration,
                                           signer)))
    \/ \E t \in Threads : TaskSign(t)
    \/ \E t \in Threads : TaskReturn(t)
    \/ Tick

SpecTasks == InitTasks /\ [][NextTasks]_vars

(***************************************************************************)
(* Exact arithmetic for stating the properties: a real number m / 10^scale *)
(* with a sign, of unbounded precision                                     *)
(***************************************************************************)
ExactMul(a, b) ==
    [neg |-> (a.neg # b.neg) /\ a.mag # <<>> /\ b.mag # <<>>,
     mag |-> MagMul(a.mag, b.mag),
     scale |-> a.scale + b.scale]

ExactOfInt(x) == [neg |-> x.neg, mag |-> x.mag, scale |-> 0]

ExactIsPositive(x) == ~x.neg /\ x.mag # <<>>

\* x >= 1
ExactAtLeastOne(x) == ~x.neg /\ MagLe(MagShl(One, x.scale), x.mag)

\* |x| < 1
ExactBelowOne(x) == MagLt(x.mag, MagShl(One, x.scale))

\* the integer part of |x|
ExactFloorAbs(x) == MagShr(x.mag, x.scale)

\* the least integer >= |x|
ExactCeilAbs(x) ==
    IF MagLowZero(x.mag, x.scale) THEN MagShr(x.mag, x.scale)
    ELSE MagAdd(MagShr(x.mag, x.scale), One)

\* | |n| - |x| | for an integer magnitude n, in units of 10^-scale
ExactDistance(n, x) ==
    IF MagLe(x.mag, MagShl(n, x.scale)) THEN MagSub(MagShl(n, x.scale), x.mag)
    ELSE MagSub(x.mag, MagShl(n, x.scale))

\* n is an integer nearest to |x|: 2 * | n - |x| | <= 1
ExactIsNearest(n, x) ==
    MagLe(MagMul(MagOf(2), ExactDistance(n, x)), MagShl(One, x.scale))

\* the digit of |x| after the decimal point is 5 or more
ExactFractionAtLeastHalf(x) == x.scale >= 1 /\ Digit(x.mag, x.scale) >= 5

(***************************************************************************)
(* Amount canonicalization: what the recorded sign_order_with_params call  *)
(* was given and what it computed                                          *)
(***************************************************************************)
OrderCall == result.op = "sign_order_with_params" \/ result.op = "sign_order"

AmountsProduced == OrderCall /\ result.out.trace.amounts # None

OrderSigned == OrderCall /\ result.out.kind = "ok"

StarkAmounts == result.out.trace.amounts.val

ExactSynthetic ==
    ExactMul(result.order.quantity, ExactOfInt(result.params.synthetic_resolution))

ExactNotional == ExactMul(result.order.price, result.order.quantity)

ExactCollateral == ExactMul(ExactNotional, ExactOfInt(IntOf(COLLATERAL_RESOLUTION)))

ExactFee ==
    ExactMul(ExactMul(result.order.fee, ExactNotional), ExactOfInt(IntOf(COLLATERAL_RESOLUTION)))

ExactExceedsI64(x) == ~InI64(MkInt(x.neg, ExactFloorAbs(x)))

ExactFeeExceedsU64(x) == ~MagLe(ExactCeilAbs(x), U64_MAX)

\* C4 as stated: when quantity x synthetic_resolution, price x quantity x
\* 10^6 or the fee in settlement units exceeds the 64-bit range, signing
\* returns an overflow error and no signed order.
C4_OverflowReturnsError ==
    (OrderCall /\ (\/ ExactExceedsI64(ExactSynthetic)
                   \/ ExactExceedsI64(ExactCollateral)
                   \/ ExactFeeExceedsU64(ExactFee)))
        => (result.out.kind = "err" /\ result.out.value = None)

(***************************************************************************)
(* Settlement expiration                                                   *)
(***************************************************************************)
ExpirationCall == result.op = "calculate_settlement_expiration"

\* ceil(t / 1000) of a signed integer t
CeilDiv1000(t) ==
    IF t.neg THEN MkInt(TRUE, MagShr(t.mag, 3))
    ELSE MkInt(FALSE, MagShr(MagAdd(t.mag, MagOf(999)), 3))

\* C5 as stated, for the calls that return: for every i64 expiry_millis
\* the expiration is ceil((expiry_millis + 1,209,600,000) / 1000).
C5_ExpirationIsExactCeiling ==
    (ExpirationCall /\ result.out.kind = "ok") =>
        MkInt(FALSE, result.out.val) = CeilDiv1000(IntAdd(result.input, IntOf(BUFFER_MILLIS)))

\* C6 as stated: for i64 values a <= b, the expiration of a is at most the
\* expiration of b.
C6_ExpirationIsMonotonic ==
    ExpirationCall =>
        \A b \in ExpiryInputs :
            (/\ IntLe(result.input, b)
             /\ result.out.kind = "ok"
             /\ calculate_settlement_expiration(b, profile).kind = "ok")
                => MagLe(result.out.val, calculate_settlement_expiration(b, profile).val)

(***************************************************************************)
(* Hash preimage, order id, failure and the signer's keys                  *)
(***************************************************************************)
OrderPreimage == result.out.trace.preimage.val

\* the position id as the caller gave it: a u32 to sign_order_with_params,
\* a decimal string to sign_order
PositionId ==
    IF result.op = "sign_order" THEN ParseU32(result.params.vault_id).val
    ELSE result.params.vault_id

\* C7: the argument list handed to get_order_hash is, in this order,
\* position id, synthetic asset id, signed synthetic amount, collateral
\* asset id, signed collateral amount, fee asset id, fee amount, settlement
\* expiration, nonce, signer public key, domain name, version, chain id and
\* revision; the fee asset id is the collateral asset id; the hash that is
\* signed is the hash of that list.
C7_PreimageFieldOrder ==
    (OrderCall /\ result.out.trace.preimage # None) =>
        /\ OrderPreimage =
              << MagToString(PositionId),
                 result.params.synthetic_asset_id,
                 IntToString(StarkAmounts.synthetic),
                 result.params.collateral_asset_id,
                 IntToString(StarkAmounts.collateral),
                 result.params.collateral_asset_id,
                 MagToString(StarkAmounts.fee.mag),
                 MagToString(calculate_settlement_expiration(
                                 result.order.expiry_epoch_millis, profile).val),
                 MagToString(result.order.nonce.mag),
                 FeltToHex(signer.public_key),
                 result.params.domain.name,
                 result.params.domain.version,
                 result.params.domain.chain_id,
                 result.params.domain.revision >>
        /\ OrderPreimage[6] = OrderPreimage[4]
        /\ result.out.trace.hash # None =>
              Val(result.out.trace.hash.val) = get_order_hash(OrderPreimage)

\* an order signed for the testnet domain, with its fourteen fields
C7_SignedOnTestnet ==
    /\ OrderSigned
    /\ Len(OrderPreimage) = 14
    /\ result.params.domain = Testnet
    /\ OrderPreimage[13] = Testnet.chain_id

\* C8: after a successful sign_order / sign_order_with_params the id of the
\* returned request is the decimal string of the order hash, whatever id
\* the request came with.
C8_IdIsDecimalHash ==
    OrderSigned =>
        result.out.value.val.id = MagToString(MagOf(result.out.trace.hash.val))

\* a signed order that came with the caller's external id
C8_SignedWithExternalId ==
    /\ OrderSigned
    /\ result.order.id \in ExternalIds
    /\ result.out.value.val.id # result.order.id

SigningCall ==
    result.op \in {"sign_order_with_params", "sign_order", "sign_withdrawal", "sign_transfer"}

\* the signature in the returned request
ReturnedSignature ==
    IF OrderCall THEN result.out.value.val.settlement.val.signature
    ELSE result.out.value.val.signature

\* C9 as stated: a request is returned only after canonicalization, hashing
\* and signing all succeeded, and a call in which one of them fails returns
\* an error and no request.
C9_FailureReturnsError ==
    SigningCall =>
        /\ result.out.kind = "ok" =>
              /\ result.out.trace.amounts # None
              /\ result.out.trace.hash # None
              /\ result.out.trace.signature # None
              /\ ReturnedSignature = signature_hex(result.out.trace.signature.val)
        /\ result.out.kind # "ok" =>
              /\ result.out.kind = "err"
              /\ result.out.value = None

KeysDiffer == get_public_key(signer.private_key) # signer.public_key

\* the recorded call made again with another signer
Replay(other) ==
    IF result.op = "sign_order_with_params"
    THEN sign_order_with_params(result.order, other, result.params, profile)
    ELSE IF result.op = "sign_order"
    THEN sign_order(result.order, other, result.params.vault_id,
                    result.params.synthetic_asset_id, result.params.synthetic_resolution,
                    result.params.domain, profile)
    ELSE IF result.op = "sign_withdrawal"
    THEN sign_withdrawal(result.amount, result.recipient, result.nonce, result.expiry_millis,
                         result.vault_id, result.collateral_asset_id, other, result.domain,
                         profile)
    ELSE sign_transfer(result.amount, result.recipient_vault_id, result.sender_vault_id,
                       result.nonce, result.expiry_millis, result.collateral_asset_id, other,
                       result.domain, profile)

\* the place of the public key in the argument list of the hash
PublicKeyField == IF OrderCall THEN 10 ELSE 7

\* C10: verify_public_key returns true exactly when the stored key is the
\* key derived from the private key; signing does not depend on it: a call
\* ends as it ends with the derived key, the hash is taken over the stored
\* key, the settlement carries the stored key and the signature is made
\* with the private key.
C10_SuppliedKeyIsNotAGate ==
    /\ result.op = "verify_public_key" => (result.out = ~KeysDiffer)
    /\ SigningCall =>
          /\ result.out.kind = Replay(StarkSigner_new(signer.private_key)).kind
          /\ result.out.trace.preimage # None =>
                result.out.trace.preimage.val[PublicKeyField] = FeltToHex(signer.public_key)
          /\ result.out.trace.signature # None =>
                Val(result.out.trace.signature.val)
                    = sign_message(result.out.trace.hash.val, signer.private_key)
          /\ OrderSigned =>
                result.out.value.val.settlement.val.stark_key = FeltToHex(signer.public_key)

\* an order signed by a signer whose supplied key is not the derived one
C10_SignedWithMismatchedKey ==
    /\ OrderSigned
    /\ KeysDiffer
    /\ ~verify_public_key(signer)
    /\ result.out.value.val.settlement.val.stark_key = FeltToHex(signer.public_key)

(***************************************************************************)
(* Determinism and thread safety of signing                                *)
(***************************************************************************)
\* what the call returns when it runs with nothing else running
Alone(call, self, overflow_checks) ==
    IF call.op = "sign_order_with_params"
    THEN sign_order_with_params(call.order, self, call.params, overflow_checks)
    ELSE IF call.op = "sign_withdrawal"
    THEN sign_withdrawal(call.amount, call.recipient, call.nonce, call.expiry_millis,
                         call.vault_id, call.collateral_asset_id, self, call.domain,
                         overflow_checks)
    ELSE sign_transfer(call.amount, call.recipient_vault_id, call.sender_vault_id, call.nonce,
                       call.expiry_millis, call.collateral_asset_id, self, call.domain,
                       overflow_checks)

Finished(t) == tasks[t].pc = "done"

Returned(t) == Finished(t) /\ tasks[t].out.kind = "ok"

C18_InterleavingIsInvisible ==
    \A t \in DOMAIN tasks :
        tasks[t].pc # "idle" =>
            /\ signer = tasks[t].signer_at_start
            /\ Finished(t) => tasks[t].out = Alone(tasks[t].call, tasks[t].signer_at_start, profile)

\* a call that began while another call was in progress has returned a
\* signed request
C18_OverlappingCallReturned ==
    \E t \in DOMAIN tasks : Returned(t) /\ tasks[t].overlaps

(***************************************************************************)
(* Market rounding: comparisons of exact values                            *)
(***************************************************************************)
ExactIsNegative(x) == x.neg /\ x.mag # <<>>

\* a <= b
ExactLe(a, b) ==
    IF ExactIsNegative(a) /\ ~ExactIsNegative(b) THEN TRUE
    ELSE IF ~ExactIsNegative(a) /\ ExactIsNegative(b) THEN FALSE
    ELSE IF ExactIsNegative(a) THEN MagLe(MagShl(b.mag, a.scale), MagShl(a.mag, b.scale))
    ELSE MagLe(MagShl(a.mag, b.scale), MagShl(b.mag, a.scale))

ExactLt(a, b) == ~ExactLe(b, a)

ExactEq(a, b) == ExactLe(a, b) /\ ExactLe(b, a)

\* a + g and a - g for g > 0, a and g brought to one scale
ExactSum(neg, am, gm, scale) ==
    IF ~neg THEN [neg |-> FALSE, mag |-> MagAdd(am, gm), scale |-> scale]
    ELSE IF MagLe(gm, am) THEN [neg |-> TRUE, mag |-> MagSub(am, gm), scale |-> scale]
    ELSE [neg |-> FALSE, mag |-> MagSub(gm, am), scale |-> scale]

ExactPlus(a, g) ==
    ExactSum(ExactIsNegative(a), MagShl(a.mag, g.scale), MagShl(g.mag, a.scale),
             a.scale + g.scale)

ExactNegate(a) == [neg |-> ~a.neg, mag |-> a.mag, scale |-> a.scale]

ExactMinus(a, g) == ExactNegate(ExactPlus(ExactNegate(a), g))

\* y = k * g for an integer k
ExactIsMultiple(y, g) ==
    MagDivMod(MagShl(y.mag, g.scale), MagShl(g.mag, y.scale)).r = <<>>

RoundingCall == result.op \in RoundingOps

RoundsDown == result.op \in {"round_price_down", "round_qty_down"}

GridIsPositive == ~result.grid.neg /\ result.grid.mag # <<>>

\* the two roundings of the recorded value on the recorded market
RoundedDown ==
    IF result.op \in {"round_price_down", "round_price_up"}
    THEN round_price_down(result.config, result.value)
    ELSE round_qty_down(result.config, result.value)

RoundedUp ==
    IF result.op \in {"round_price_down", "round_price_up"}
    THEN round_price_up(result.config, result.value)
    ELSE round_qty_up(result.config, result.value)

\* d = floor(x / g) * g and u = ceil(x / g) * g
IsFloorAndCeiling(x, g, d, u) ==
    /\ d.kind = "ok" /\ u.kind = "ok"
    /\ ExactIsMultiple(d.val, g) /\ ExactIsMultiple(u.val, g)
    /\ ExactLe(d.val, x) /\ ExactLt(x, ExactPlus(d.val, g))
    /\ ExactLe(x, u.val) /\ ExactLt(ExactMinus(u.val, g), x)
    /\ (ExactEq(u.val, d.val) \/ ExactEq(u.val, ExactPlus(d.val, g)))

\* C12: on a positive grid, rounding down what a rounding down on the same
\* grid has returned returns it again, and a value that is a multiple of
\* the grid is returned unchanged by rounding down and by rounding up.
C12_RoundingIsIdempotent ==
    (RoundingCall /\ GridIsPositive) =>
        /\ (result.previous # NoCall /\ result.previous.op = result.op /\ RoundsDown)
              => (result.out.kind = "ok" /\ ExactEq(result.out.val, result.value))
        /\ ExactIsMultiple(result.value, result.grid)
              => (result.out.kind = "ok" /\ ExactEq(result.out.val, result.value))

\* C13: on a positive grid, round_down(x, g) = floor(x / g) * g and
\* round_up(x, g) = ceil(x / g) * g: both are multiples of g, round_down <=
\* x <= round_up, each is less than g away from x, and they are equal or g
\* apart.
C13_RoundingIsFloorAndCeiling ==
    (RoundingCall /\ GridIsPositive) =>
        /\ result.out = (IF RoundsDown THEN RoundedDown ELSE RoundedUp)
        /\ IsFloorAndCeiling(result.value, result.grid, RoundedDown, RoundedUp)

\* C14, in its weakest reading: an order signed with a synthetic resolution
\* that is zero or negative is refused, and no hash, signature or signed
\* order is produced.
C14_NonPositiveResolutionIsRefused ==
    (OrderCall /\ ~IntIsPos(result.params.synthetic_resolution)) =>
        /\ result.out.kind # "ok"
        /\ result.out.trace.hash = None
        /\ result.out.trace.signature = None

\* C15, in its weakest reading: a rounding on a tick size or step size that
\* is zero or negative returns no rounded value.
C15_NonPositiveGridIsRefused ==
    (RoundingCall /\ ~GridIsPositive) => result.out.kind # "ok"

\* a key string Felt::from_hex cannot read: a character that is no
\* hexadecimal digit after the optional "0x"
MalformedHex(str) == \E i \in 1..Len(StripHexPrefix(str)) : ~IsHexDigit(StripHexPrefix(str)[i])

NotDecimalU32(str) == ParseU32(str) = None

\* the call returned an error and had handed nothing to the hash function
\* or the signature function
RejectedBeforeHashing ==
    /\ result.out.kind = "err"
    /\ result.out.trace.preimage = None
    /\ result.out.trace.hash = None
    /\ result.out.trace.signature = None

\* C16: a malformed hex key makes StarkSigner::from_hex and
\* from_hex_with_public_key return an error, and a vault or position
\* identifier that is not a decimal u32 makes sign_order, sign_withdrawal
\* and sign_transfer return an error before the hash function or the
\* signature function is called.
C16_MalformedInputIsRejectedFirst ==
    /\ (result.op = "from_hex" /\ MalformedHex(result.hex_key))
          => result.out.kind = "err"
    /\ (/\ result.op = "from_hex_with_public_key"
        /\ (MalformedHex(result.private_key_hex) \/ MalformedHex(result.public_key_hex)))
          => result.out.kind = "err"
    /\ (result.op = "sign_order" /\ NotDecimalU32(result.params.vault_id))
          => RejectedBeforeHashing
    /\ (result.op = "sign_withdrawal" /\ NotDecimalU32(result.vault_id))
          => RejectedBeforeHashing
    /\ (/\ result.op = "sign_transfer"
        /\ (NotDecimalU32(result.recipient_vault_id) \/ NotDecimalU32(result.sender_vault_id)))
          => RejectedBeforeHashing

\* C16 without sign_transfer: the part of the statement the other four
\* entry points satisfy
C16_KeysAndVaultIdsAreRejected ==
    /\ (result.op = "from_hex" /\ MalformedHex(result.hex_key))
          => result.out.kind = "err"
    /\ (/\ result.op = "from_hex_with_public_key"
        /\ (MalformedHex(result.private_key_hex) \/ MalformedHex(result.public_key_hex)))
          => result.out.kind = "err"
    /\ (result.op = "sign_order" /\ NotDecimalU32(result.params.vault_id))
          => RejectedBeforeHashing
    /\ (result.op = "sign_withdrawal" /\ NotDecimalU32(result.vault_id))
          => RejectedBeforeHashing

\* the fields of an order request that signing writes
SignedFields == {"id", "settlement", "debugging_amounts"}

\* the request a withdrawal or transfer call returned
ReturnedRequest == result.out.value.val

\* C17: a signed order differs from the order given only in id, settlement
\* and debugging_amounts; a signed withdrawal or transfer holds the given
\* amount, recipient, nonce and expiry and, besides them, only a signature
\* made of r and s.
C17_SigningKeepsTheRequest ==
    /\ (OrderCall /\ result.out.kind = "ok") =>
          /\ DOMAIN result.out.value.val = DOMAIN result.order
          /\ \A f \in (DOMAIN result.order) \ SignedFields :
                result.out.value.val[f] = result.order[f]
    /\ (result.op = "sign_withdrawal" /\ result.out.kind = "ok") =>
          /\ ReturnedRequest = [amount |-> result.amount,
                                recipient |-> result.recipient,
                                nonce |-> result.nonce,
                                expiry_epoch_millis |-> result.expiry_millis,
                                signature |-> ReturnedRequest.signature]
          /\ DOMAIN ReturnedRequest.signature = {"r", "s"}
    /\ (result.op = "sign_transfer" /\ result.out.kind = "ok") =>
          /\ ReturnedRequest = [amount |-> result.amount,
                                recipient_account_id |-> result.recipient_vault_id,
                                nonce |-> result.nonce,
                                expiry_epoch_millis |-> result.expiry_millis,
                                signature |-> ReturnedRequest.signature]
          /\ DOMAIN ReturnedRequest.signature = {"r", "s"}

\* an order built with an id of the caller's has been signed, and the id
\* returned is another
C17_SignedOrderHasNewId ==
    /\ OrderCall /\ result.out.kind = "ok"
    /\ result.order.id = <<"m", "y", "-", "i", "d">>
    /\ result.out.value.val.id # result.order.id
    /\ result.out.value.val.settlement # None

\* a step of OrderBuilder::limit, and a step of OrderBuilder::build
LimitStep == builder = None /\ builder' # None

BuildStep == builder # None /\ order' # None

\* the clock was read between the start and the end of the step
ReadDuringStep(t) == MagLe(now, t) /\ MagLe(t, now')

\* C19: build copies a nonce, an expiry and a fee that were set; a nonce
\* left out is a reading of the clock in milliseconds, an expiry left out
\* is the reading of the clock plus 3,600,000, a fee left out is 0.0005;
\* the request built has no settlement and no debugging amounts.
C19_BuildFillsDefaults ==
    [][/\ LimitStep => /\ builder'.val.fee = Dec(FALSE, MagOf(5), 4)
                       /\ builder'.val.nonce = None
                       /\ builder'.val.expiry_epoch_millis = None
       /\ BuildStep =>
             /\ order'.val.fee = builder.val.fee
             /\ builder.val.nonce # None
                   => order'.val.nonce = DecFromInt(MkInt(FALSE, builder.val.nonce.val))
             /\ builder.val.nonce = None
                   => \E t \in BuilderClock :
                         /\ ReadDuringStep(t)
                         /\ order'.val.nonce = DecFromInt(MkInt(FALSE, t))
             /\ builder.val.expiry_epoch_millis # None
                   => order'.val.expiry_epoch_millis = builder.val.expiry_epoch_millis.val
             /\ builder.val.expiry_epoch_millis = None
                   => order'.val.expiry_epoch_millis
                         = IntAdd(MkInt(FALSE, now'), IntOf(3600000))
             /\ order'.val.settlement = None
             /\ order'.val.debugging_amounts = None]_vars

\* a request built with nothing set, the clock having moved between its
\* two readings
C19_BuiltFromDefaults ==
    /\ order # None
    /\ order.val.fee = Dec(FALSE, MagOf(5), 4)
    /\ order.val.nonce = DecFromInt(MkInt(FALSE, ClockStart))
    /\ now # ClockStart
    /\ order.val.expiry_epoch_millis = IntAdd(MkInt(FALSE, now), IntOf(3600000))

\* the reference order: Buy, price 93050, quantity 0.05234, fee rate 0.0005,
\* nonce 12345678901234567890, expiry 1,800,000,000,000 ms, signed with
\* synthetic resolution 10^8
ReferenceOrderCall ==
    /\ OrderCall
    /\ result.order.side = "Buy"
    /\ result.order.price = Dec(FALSE, MagOf(93050), 0)
    /\ result.order.quantity = Dec(FALSE, MagOf(5234), 5)
    /\ result.order.fee = Dec(FALSE, MagOf(5), 4)
    /\ result.order.nonce = Dec(FALSE, ReferenceNonce, 0)
    /\ result.order.expiry_epoch_millis = ReferenceExpiry
    /\ result.params.synthetic_resolution = IntOf(100000000)

HashedFields == result.out.trace.preimage.val

DebuggingAmounts == result.out.value.val.debugging_amounts.val

\* an integral Decimal written as the integer it holds
IntegerString(d) == IntToString(MkInt(d.neg, d.mag))

\* C21: the debugging amounts of a signed order are the synthetic amount,
\* the collateral amount and the fee amount of the hash preimage.
C21_DebuggingAmountsAreHashed ==
    OrderSigned =>
        /\ DebuggingAmounts.synthetic_amount.scale = 0
        /\ DebuggingAmounts.collateral_amount.scale = 0
        /\ DebuggingAmounts.fee_amount.scale = 0
        /\ IntegerString(DebuggingAmounts.synthetic_amount) = HashedFields[3]
        /\ IntegerString(DebuggingAmounts.collateral_amount) = HashedFields[5]
        /\ IntegerString(DebuggingAmounts.fee_amount) = HashedFields[7]

\* C21 for fee amounts up to i64::MAX
C21_DebuggingAmountsBelowTwo63 ==
    (OrderSigned /\ MagLe(StarkAmounts.fee.mag, I64_MAX)) => C21_DebuggingAmountsAreHashed

OrderSide_opposite(side) == IF side = "Buy" THEN "Sell" ELSE "Buy"

\* the amounts of the order of the other side: same price, quantity, fee
\* and signing parameters
OppositeAmounts ==
    calculate_stark_amounts([result.order EXCEPT !.side = OrderSide_opposite(@)],
                            result.params, profile)

\* b = -a as integers
IsNegationOf(a, b) == a.mag = b.mag /\ (a.mag = <<>> \/ a.neg # b.neg)

\* C22: when an order gets canonical amounts, the order of the other side
\* with the same price, quantity, fee and resolution gets the negated
\* synthetic amount, the negated collateral amount and the same fee amount.
C22_SellNegatesBuy ==
    AmountsProduced =>
        /\ OppositeAmounts.kind = "ok"
        /\ IsNegationOf(StarkAmounts.synthetic, OppositeAmounts.val.synthetic)
        /\ IsNegationOf(StarkAmounts.collateral, OppositeAmounts.val.collateral)
        /\ OppositeAmounts.val.fee = StarkAmounts.fee

\* C22 away from i64::MIN
C22_SellNegatesBuyAboveMin ==
    (/\ AmountsProduced
     /\ StarkAmounts.synthetic # I64_MIN_VALUE
     /\ StarkAmounts.collateral # I64_MIN_VALUE) => C22_SellNegatesBuy

\* a scaled product converted to i64: the fraction dropped, the sign kept
TruncatedToI64(x) ==
    IF ExactFloorAbs(x) = <<>> THEN MkInt(FALSE, <<>>) ELSE MkInt(x.neg, ExactFloorAbs(x))

\* C28: no negation in calculate_stark_amounts overflows, and the amounts
\* returned are the scaled products converted to i64 with the sign of the
\* side: a Buy keeps the synthetic amount and negates the collateral
\* amount, a Sell negates the synthetic amount and keeps the collateral
\* amount, as integers.
C28_NoWrapInAmounts ==
    OrderCall =>
        /\ result.out.msg # "attempt to negate with overflow"
        /\ (AmountsProduced /\ result.order.side = "Buy") =>
              /\ StarkAmounts.synthetic = TruncatedToI64(ExactSynthetic)
              /\ IsNegationOf(TruncatedToI64(ExactCollateral), StarkAmounts.collateral)
        /\ (AmountsProduced /\ result.order.side = "Sell") =>
              /\ IsNegationOf(TruncatedToI64(ExactSynthetic), StarkAmounts.synthetic)
              /\ StarkAmounts.collateral = TruncatedToI64(ExactCollateral)

\* C28 for scaled products above i64::MIN
C28_NoWrapAboveMin ==
    (/\ OrderCall
     /\ TruncatedToI64(ExactSynthetic) # I64_MIN_VALUE
     /\ TruncatedToI64(ExactCollateral) # I64_MIN_VALUE) => C28_NoWrapInAmounts

\* a request was signed, one field of it was written, and it was signed
\* again; both calls reached the hash function
Resigned == result.op = "sign_order_with_params" /\ "previous" \in DOMAIN result

BothHashed ==
    /\ Resigned
    /\ result.out.trace.preimage # None
    /\ result.previous.out.trace.preimage # None

PreviousFields == result.previous.out.trace.preimage.val

IntentFields == {"price", "quantity", "fee", "side", "nonce", "expiry_epoch_millis"}

\* what sign_order_with_params derives from the request: the three
\* amounts, the settlement expiration and the nonce as a u64
CanonicalValues(call) ==
    << call.out.trace.amounts.val,
       calculate_settlement_expiration(call.order.expiry_epoch_millis, profile),
       unwrap_or_zero(DecToU64(call.order.nonce)) >>

\* C23 as stated: a change of price, quantity, fee, side, nonce or
\* expiry_epoch_millis changes the hash preimage.
C23_EveryChangeChangesPreimage ==
    (BothHashed /\ result.changed \in IntentFields) => HashedFields # PreviousFields

\* C23 amended: a change of price, quantity, fee, side, nonce or
\* expiry_epoch_millis changes the hash preimage exactly when it changes
\* the synthetic amount, the collateral amount, the fee amount, the
\* settlement expiration or the nonce as a u64.
C23_CanonicalChangeChangesPreimage ==
    (BothHashed /\ result.changed \in IntentFields) =>
        ((HashedFields # PreviousFields)
            <=> (CanonicalValues(result) # CanonicalValues(result.previous)))

\* an expiry changed within one second and signed under the preimage of
\* the request before the change
C23_ChangeBelowResolutionSigned ==
    /\ BothHashed
    /\ result.changed = "expiry_epoch_millis"
    /\ result.out.kind = "ok"
    /\ HashedFields = PreviousFields

\* the request's nonce is a whole number that is not negative
IsNaturalNonce(nonce) ==
    /\ nonce.mag = <<>> \/ ~nonce.neg
    /\ MagLowZero(nonce.mag, nonce.scale)

\* C24: the nonce in the hash preimage is the nonce field of the request,
\* which signing returns as it was given.
C24_HashedNonceIsRequestNonce ==
    (OrderCall /\ result.out.trace.preimage # None) =>
        /\ IsNaturalNonce(result.order.nonce)
        /\ HashedFields[9] = MagToString(MagShr(result.order.nonce.mag, result.order.nonce.scale))
        /\ result.out.kind = "ok" => result.out.value.val.nonce = result.order.nonce

\* C24 for the nonces a u64 holds
C24_HashedNonceWithinU64 ==
    (/\ OrderCall
     /\ IsNaturalNonce(result.order.nonce)
     /\ MagLe(MagShr(result.order.nonce.mag, result.order.nonce.scale), U64_MAX))
        => C24_HashedNonceIsRequestNonce

\* the settlement of the returned order
Settlement == result.out.value.val.settlement.val

\* C25: in a signed order, settlement.stark_key is the public key of the
\* hash preimage, which is the key the signer stores, and
\* settlement.collateral_position is the position id of the preimage.
C25_SettlementMatchesPreimage ==
    OrderSigned =>
        /\ Settlement.stark_key = HashedFields[10]
        /\ Settlement.stark_key = FeltToHex(signer.public_key)
        /\ Settlement.collateral_position.scale = 0
        /\ IntegerString(Settlement.collateral_position) = HashedFields[1]

\* an order signed by a signer whose stored key is not the derived one,
\* the settlement carrying the stored key
C25_SettledUnderStoredKey ==
    /\ OrderSigned
    /\ signer.public_key # get_public_key(signer.private_key)
    /\ Settlement.stark_key = FeltToHex(signer.public_key)
    /\ Settlement.stark_key # FeltToHex(get_public_key(signer.private_key))

LabelFields ==
    {"market", "order_type", "time_in_force", "reduce_only", "post_only",
     "self_trade_protection_level", "id"}

\* C26: a request that differs from a signed one only in market, order
\* type, time in force, reduce_only, post_only, self-trade protection level
\* or incoming id, signed with the same signer and parameters, is hashed and
\* signed alike and gets the same id and the same (r, s).
C26_LabelsDoNotReachTheHash ==
    (Resigned /\ result.changed \in LabelFields) =>
        /\ result.out.kind = result.previous.out.kind
        /\ result.out.trace = result.previous.out.trace
        /\ result.out.kind = "ok" =>
              /\ result.out.value.val.id = result.previous.out.value.val.id
              /\ result.out.value.val.settlement.val.signature
                    = result.previous.out.value.val.settlement.val.signature

\* a request signed a second time as a post-only order
C26_SignedAgainAsPostOnly ==
    /\ Resigned
    /\ result.changed = "post_only"
    /\ result.out.kind = "ok"
    /\ result.order.post_only /\ ~result.previous.order.post_only

RequestCall == result.op = "sign_withdrawal" \/ result.op = "sign_transfer"

\* amount x 10^6, exactly
ExactAmount == ExactMul(result.amount, ExactOfInt(IntOf(COLLATERAL_RESOLUTION)))

\* the settlement amount the call computed
AmountStark == result.out.trace.amounts.val

\* C27: the settlement amount of a withdrawal or transfer is amount x 10^6
\* with the fraction dropped, so never more than amount x 10^6 and equal to
\* it when the amount has at most six fractional digits; a negative amount
\* or one whose settlement amount exceeds u64::MAX ends the call with an
\* error and no signed request.
C27_RequestAmountTruncates ==
    RequestCall =>
        /\ result.out.trace.amounts # None =>
              /\ ~ExactIsNegative(ExactAmount)
              /\ AmountStark.mag = ExactFloorAbs(ExactAmount)
              /\ ExactLe(Dec(FALSE, AmountStark.mag, 0), ExactAmount)
              /\ MagLowZero(ExactAmount.mag, ExactAmount.scale)
                    => ExactEq(Dec(FALSE, AmountStark.mag, 0), ExactAmount)
        /\ (ExactIsNegative(ExactAmount) \/ ~MagLe(ExactFloorAbs(ExactAmount), U64_MAX))
              => (result.out.kind = "err" /\ result.out.value = None)

\* C27 for amounts whose product with 10^6 fits the 96-bit mantissa
C27_RequestAmountWithinMantissa ==
    (RequestCall /\ MagLt(ExactAmount.mag, Two96)) => C27_RequestAmountTruncates

\* a step of OrderBuilder::build on a builder on which trigger was called
BuildStepAfterTrigger == BuildStep /\ builder.val.trigger_price # None

\* C29: a request built after OrderBuilder::trigger is of type Conditional
\* and its trigger field holds the trigger price and the trigger type given;
\* no request of type Conditional is built with an empty trigger field.
C29_ConditionalCarriesTrigger ==
    [][/\ BuildStepAfterTrigger =>
             /\ order'.val.order_type = "Conditional"
             /\ order'.val.trigger # None
             /\ order'.val.trigger.val.trigger_price = builder.val.trigger_price.val
             /\ order'.val.trigger.val.trigger_price_type = builder.val.trigger_type.val
       /\ (BuildStep /\ order'.val.order_type = "Conditional") => order'.val.trigger # None]_vars

\* the part of C29 about the order type alone
C29_TriggerMakesConditional ==
    [][BuildStep => (order'.val.order_type = "Conditional" <=> builder.val.trigger_price # None)]_vars

\* a call of TradingClient::new that returned a client
AcceptedAccount == result.op = "TradingClient_new" /\ result.out.kind = "ok"

\* what a call of TradingClient::new leaves of the signer: the signer of the
\* client returned, or the error
SignerOrError(out) == IF out.kind = "ok" THEN Val(out.val.signer) ELSE out

\* C30: the signer of every client TradingClient::new returns passes
\* verify_public_key, holds the private key the account names and the public
\* key derived from it, whatever the account's public_key string is; and an
\* account is accepted or refused whatever that string is.
C30_SignerComesFromPrivateKey ==
    /\ AcceptedAccount =>
          /\ verify_public_key(result.out.val.signer)
          /\ Val(result.out.val.signer.private_key) = Felt_from_hex(result.account.private_key)
          /\ result.out.val.signer.public_key = get_public_key(result.out.val.signer.private_key)
    /\ result.op = "TradingClient_new" =>
          \A public_key \in HexKeys :
              SignerOrError(TradingClient_new([result.account EXCEPT !.public_key = public_key],
                                              result.http_client))
                = SignerOrError(result.out)

\* a client was returned for an account whose public_key string is not the
\* derived key: another key, and a string that is no hexadecimal number
C30_AcceptedWithOtherPublicKey ==
    /\ AcceptedAccount
    /\ Felt_from_hex(result.account.public_key) # Val(result.out.val.signer.public_key)

====
